---- MODULE Spec2Model ----
(***************************************************************************)
(* posterboy: platform-capability validation, parameter resolution and     *)
(* request building of the post commands (text, photo, video, document).   *)
(*                                                                         *)
(* Strings are atoms.  A comma-separated flag value is a sequence of       *)
(* pieces, each piece a comma, a blank or a word; an absent value          *)
(* (undefined) is the atom Undef.  Instants are seconds.                   *)
(***************************************************************************)
EXTENDS Integers, Sequences, FiniteSets, TLC

VARIABLES inv, pc, out

vars == <<inv, pc, out>>

(***************************************************************************)
(* Bounds of the model                                                     *)
(***************************************************************************)
MaxListLen == 2

MaxNow == 1

(***************************************************************************)
(* Generic helpers                                                         *)
(***************************************************************************)
Range(s) == {s[i] : i \in 1..Len(s)}

SeqsUpTo(S, n) == UNION {[1..k -> S] : k \in 0..n}

Undef == "undefined"

\* JavaScript truthiness of an optional string
Truthy(v) == v /= Undef /\ v /= ""

\* JavaScript a || b on optional strings
OrElse(a, b) == IF Truthy(a) THEN a ELSE b

(***************************************************************************)
(* Outcomes: a normal return, or the error thrown                          *)
(***************************************************************************)
Ok == [kind |-> "ok", msg |-> "", items |-> <<>>, hint |-> <<>>]

UserError(m, its, h) == [kind |-> "UserError", msg |-> m, items |-> its, hint |-> h]

TypeError == [kind |-> "TypeError", msg |-> "property of undefined", items |-> <<>>, hint |-> <<>>]

(***************************************************************************)
(* Platform registry                                                       *)
(***************************************************************************)
ALL_PLATFORMS ==
    << "tiktok", "instagram", "youtube", "linkedin", "facebook",
       "x", "threads", "pinterest", "reddit", "bluesky" >>

ContentTypes == {"text", "photo", "video", "document"}

PLATFORM_CAPABILITIES_DocumentOnFacebook ==
    [ tiktok    |-> [text |-> FALSE, photo |-> TRUE,  video |-> TRUE, document |-> FALSE],
      instagram |-> [text |-> FALSE, photo |-> TRUE,  video |-> TRUE, document |-> FALSE],
      youtube   |-> [text |-> FALSE, photo |-> FALSE, video |-> TRUE, document |-> FALSE],
      linkedin  |-> [text |-> TRUE,  photo |-> TRUE,  video |-> TRUE, document |-> TRUE ],
      facebook  |-> [text |-> TRUE,  photo |-> TRUE,  video |-> TRUE, document |-> TRUE ],
      x         |-> [text |-> TRUE,  photo |-> TRUE,  video |-> TRUE, document |-> FALSE],
      threads   |-> [text |-> TRUE,  photo |-> TRUE,  video |-> TRUE, document |-> FALSE],
      pinterest |-> [text |-> FALSE, photo |-> TRUE,  video |-> TRUE, document |-> FALSE],
      reddit    |-> [text |-> TRUE,  photo |-> TRUE,  video |-> TRUE, document |-> FALSE],
      bluesky   |-> [text |-> TRUE,  photo |-> TRUE,  video |-> TRUE, document |-> FALSE] ]

PLATFORM_CAPABILITIES ==
    [ tiktok    |-> [text |-> FALSE, photo |-> TRUE,  video |-> TRUE, document |-> FALSE],
      instagram |-> [text |-> FALSE, photo |-> TRUE,  video |-> TRUE, document |-> FALSE],
      youtube   |-> [text |-> FALSE, photo |-> FALSE, video |-> TRUE, document |-> FALSE],
      linkedin  |-> [text |-> TRUE,  photo |-> TRUE,  video |-> TRUE, document |-> TRUE ],
      facebook  |-> [text |-> TRUE,  photo |-> TRUE,  video |-> TRUE, document |-> FALSE],
      x         |-> [text |-> TRUE,  photo |-> TRUE,  video |-> TRUE, document |-> FALSE],
      threads   |-> [text |-> TRUE,  photo |-> TRUE,  video |-> TRUE, document |-> FALSE],
      pinterest |-> [text |-> FALSE, photo |-> TRUE,  video |-> TRUE, document |-> FALSE],
      reddit    |-> [text |-> TRUE,  photo |-> TRUE,  video |-> TRUE, document |-> FALSE],
      bluesky   |-> [text |-> TRUE,  photo |-> TRUE,  video |-> TRUE, document |-> FALSE] ]

\* ALL_PLATFORMS.includes(p)
IsPlatform(p) == p \in Range(ALL_PLATFORMS)

\* PLATFORM_CAPABILITIES[p][type], for p a key of the table
Capable(p, type) == PLATFORM_CAPABILITIES[p][type]

\* validatePlatforms (lib/platforms), rethrown unchanged by lib/validation
validatePlatformsFirstInvalid(platforms) ==
    LET invalid == SelectSeq(platforms, LAMBDA p : ~IsPlatform(p))
    IN  IF Len(platforms) = 0
        THEN UserError("At least one platform is required", <<>>, ALL_PLATFORMS)
        ELSE IF Len(invalid) > 0
        THEN UserError("Invalid platform names", <<invalid[1]>>, ALL_PLATFORMS)
        ELSE Ok

validatePlatforms(platforms) ==
    LET invalid == SelectSeq(platforms, LAMBDA p : ~IsPlatform(p))
    IN  IF Len(platforms) = 0
        THEN UserError("At least one platform is required", <<>>, ALL_PLATFORMS)
        ELSE IF Len(invalid) > 0
        THEN UserError("Invalid platform names", invalid, ALL_PLATFORMS)
        ELSE Ok

getPlatformsForContentTypeReversed(type) ==
    LET n == Len(ALL_PLATFORMS)
        rev == [i \in 1..n |-> ALL_PLATFORMS[n + 1 - i]]
    IN  SelectSeq(rev, LAMBDA p : Capable(p, type))

getPlatformsForContentType(type) ==
    SelectSeq(ALL_PLATFORMS, LAMBDA p : Capable(p, type))

validateContentTypeFirstOnly(contentType, platforms) ==
    LET unsupported == SelectSeq(platforms, LAMBDA p : ~Capable(p, contentType))
    IN  IF Len(unsupported) > 0
        THEN UserError("does not support", <<unsupported[1]>>,
                       getPlatformsForContentType(contentType))
        ELSE Ok

\* A check that is content with one supporting platform in the list
validateContentTypeAnySupported(contentType, platforms) ==
    IF \E i \in 1..Len(platforms) : ~IsPlatform(platforms[i])
    THEN TypeError
    ELSE IF Len(platforms) > 0 /\ \A i \in 1..Len(platforms) : ~Capable(platforms[i], contentType)
    THEN UserError("does not support", platforms, getPlatformsForContentType(contentType))
    ELSE Ok

\* The filter callback reads PLATFORM_CAPABILITIES[p][contentType] for every
\* element: an element that is no key of the table makes it throw a TypeError.
validateContentTypeForPlatforms(contentType, platforms) ==
    IF \E i \in 1..Len(platforms) : ~IsPlatform(platforms[i])
    THEN TypeError
    ELSE LET unsupported == SelectSeq(platforms, LAMBDA p : ~Capable(p, contentType))
         IN  IF Len(unsupported) > 0
             THEN UserError("does not support", unsupported,
                            getPlatformsForContentType(contentType))
             ELSE Ok

\* The platform-specific required field, and the flag its error names
RequiredField(platform) ==
    CASE platform = "facebook"  -> "facebook_page"
      [] platform = "pinterest" -> "pinterest_board"
      [] platform = "reddit"    -> "reddit_subreddit"
      [] OTHER                  -> Undef

RequirementError(platform) ==
    CASE platform = "facebook"  ->
           UserError("Facebook requires --facebook-page flag",
                     <<"facebook">>, <<"facebook", "page_id">>)
      [] platform = "pinterest" ->
           UserError("Pinterest requires --pinterest-board flag",
                     <<"pinterest">>, <<"pinterest", "board_id">>)
      [] platform = "reddit"    ->
           UserError("Reddit requires --reddit-subreddit flag",
                     <<"reddit">>, <<"reddit", "subreddit">>)

RECURSIVE requirementsFrom(_, _, _)
requirementsFrom(platforms, params, i) ==
    IF i > Len(platforms) THEN Ok
    ELSE IF RequiredField(platforms[i]) /= Undef
            /\ ~Truthy(params[RequiredField(platforms[i])])
         THEN RequirementError(platforms[i])
         ELSE requirementsFrom(platforms, params, i + 1)

validatePlatformRequirementsLastWins(platforms, params) ==
    LET missing == SelectSeq(platforms, LAMBDA p :
                       RequiredField(p) /= Undef /\ ~Truthy(params[RequiredField(p)]))
    IN  IF Len(missing) = 0 THEN Ok ELSE RequirementError(missing[Len(missing)])

\* validatePlatformRequirements: the loop throws at the first platform, in list
\* order, whose required field is falsy in params
validatePlatformRequirements(platforms, params) ==
    requirementsFrom(platforms, params, 1)

(***************************************************************************)
(* Parameter resolution (lib/config)                                       *)
(***************************************************************************)
resolveValueConfigFirst(flagValue, envValue, configValue, defaultValue) ==
    IF flagValue /= Undef THEN flagValue
    ELSE IF configValue /= Undef THEN configValue
    ELSE IF envValue /= Undef THEN envValue
    ELSE defaultValue

\* resolveValue; envValue is process.env[envVar]
resolveValue(flagValue, envValue, configValue, defaultValue) ==
    IF flagValue /= Undef THEN flagValue
    ELSE IF envValue /= Undef THEN envValue
    ELSE IF configValue /= Undef THEN configValue
    ELSE defaultValue

(***************************************************************************)
(* Validation (lib/validation)                                             *)
(***************************************************************************)
MaxScheduleDays == 365

DaySeconds == 24 * 60 * 60

\* A date string: one that does not parse (NaN), or the instant it denotes
NotADate == [parses |-> FALSE, t |-> 0]

DateAt(t) == [parses |-> TRUE, t |-> t]

validateISODateInclusiveNow(date, now) ==
    IF ~date.parses THEN UserError("Invalid ISO-8601 date", <<>>, <<>>)
    ELSE IF date.t < now
    THEN UserError("Schedule date must be in the future", <<>>, <<>>)
    ELSE IF date.t > now + MaxScheduleDays * DaySeconds
    THEN UserError("Schedule date must be within 365 days from now", <<>>, <<>>)
    ELSE Ok

\* validateISODate; now is the clock at the call, maxDate is now + 365 days
validateISODate(date, now) ==
    IF ~date.parses THEN UserError("Invalid ISO-8601 date", <<>>, <<>>)
    ELSE IF date.t <= now
    THEN UserError("Schedule date must be in the future", <<>>, <<>>)
    ELSE IF date.t > now + MaxScheduleDays * DaySeconds
    THEN UserError("Schedule date must be within 365 days from now", <<>>, <<>>)
    ELSE Ok

\* The timezone names Intl.DateTimeFormat resolves
IANA_ZONES == {"UTC", "America/New_York", "Europe/London"}

validateTimezone(tz) ==
    IF tz \in IANA_ZONES THEN Ok ELSE UserError("Invalid timezone", <<tz>>, <<>>)

validateMutuallyExclusiveNoneOnly(options, errorMessage) ==
    LET provided == SelectSeq(options, LAMBDA o : o.val)
    IN  IF Len(provided) = 0
        THEN UserError(OrElse(errorMessage, "Exactly one of the following must be provided"),
                       [i \in 1..Len(options) |-> options[i].key], <<>>)
        ELSE Ok

\* validateMutuallyExclusive; options lists the entries of the options object
validateMutuallyExclusive(options, errorMessage) ==
    LET provided == SelectSeq(options, LAMBDA o : o.val)
    IN  IF Len(provided) = 0
        THEN UserError(OrElse(errorMessage, "Exactly one of the following must be provided"),
                       [i \in 1..Len(options) |-> options[i].key], <<>>)
        ELSE IF Len(provided) > 1
        THEN UserError(OrElse(errorMessage, "Only one of the following can be provided"),
                       [i \in 1..Len(provided) |-> provided[i].key], <<>>)
        ELSE Ok

(***************************************************************************)
(* Values of the post commands                                             *)
(***************************************************************************)
\* An optional list-valued string (--platforms, --files, --urls) or list
NoList == [set |-> FALSE, v |-> <<>>]

ListOf(l) == [set |-> TRUE, v |-> l]

\* JavaScript truthiness of an optional raw string: defined and not ""
RawTruthy(r) == r.set /\ Len(r.v) > 0

\* --schedule: absent, the empty string, or a string (a date or not)
Unscheduled == [given |-> "no", date |-> NotADate]

EmptySchedule == [given |-> "empty", date |-> NotADate]

ScheduleOf(d) == [given |-> "yes", date |-> d]

ScheduleTruthy(sch) == sch.given = "yes"

\* if (values.k) postParams.k = values.k
IfGiven(v) == IF Truthy(v) THEN v ELSE Undef

RECURSIVE splitFrom(_, _, _, _)
splitFrom(str, i, cur, acc) ==
    IF i > Len(str) THEN Append(acc, cur)
    ELSE IF str[i] = ","
         THEN splitFrom(str, i + 1, <<>>, Append(acc, cur))
         ELSE splitFrom(str, i + 1, Append(cur, str[i]), acc)

\* str.split(",")
Split(str) == splitFrom(str, 1, <<>>, <<>>)

RECURSIVE TrimLeft(_)
TrimLeft(t) == IF Len(t) > 0 /\ Head(t) = " " THEN TrimLeft(Tail(t)) ELSE t

RECURSIVE TrimRight(_)
TrimRight(t) ==
    IF Len(t) > 0 /\ t[Len(t)] = " " THEN TrimRight(SubSeq(t, 1, Len(t) - 1)) ELSE t

\* p.trim()
Trim(t) == TrimRight(TrimLeft(t))

\* A raw string each of whose comma-separated tokens is blanks around at most
\* one word: the trimmed token is then "" or that word
WellFormedRaw(str) == \A k \in 1..Len(Split(str)) : Len(Trim(Split(str)[k])) <= 1

\* str.split(",").map(p => p.trim()).filter(p => p.length > 0)
parseList(str) ==
    LET tokens  == Split(str)
        trimmed == [k \in 1..Len(tokens) |-> Trim(tokens[k])]
        kept    == SelectSeq(trimmed, LAMBDA t : Len(t) > 0)
    IN  [k \in 1..Len(kept) |-> kept[k][1]]

(***************************************************************************)
(* The files the commands can be pointed at                                *)
(***************************************************************************)
PhotoMaxMB == 8

DocumentMaxMB == 100

AsyncThresholdMB == 50

MB == 1024 * 1024

FileSystem ==
    [ a_jpg     |-> [exists |-> TRUE,  size |-> 1024,                      ext |-> "jpg"],
      b_PNG     |-> [exists |-> TRUE,  size |-> PhotoMaxMB * MB,           ext |-> "png"],
      big_gif   |-> [exists |-> TRUE,  size |-> PhotoMaxMB * MB + 1,       ext |-> "gif"],
      gone_jpg  |-> [exists |-> FALSE, size |-> 0,                         ext |-> "jpg"],
      a_bmp     |-> [exists |-> TRUE,  size |-> 1024,                      ext |-> "bmp"],
      under_mov |-> [exists |-> TRUE,  size |-> AsyncThresholdMB * MB - 1, ext |-> "mov"],
      at_mp4    |-> [exists |-> TRUE,  size |-> AsyncThresholdMB * MB,     ext |-> "mp4"],
      over_webm |-> [exists |-> TRUE,  size |-> AsyncThresholdMB * MB + 1, ext |-> "webm"],
      gone_mp4  |-> [exists |-> FALSE, size |-> 0,                         ext |-> "mp4"],
      clip_mkv  |-> [exists |-> TRUE,  size |-> 1024,                      ext |-> "mkv"],
      deck_pdf  |-> [exists |-> TRUE,  size |-> DocumentMaxMB * MB,        ext |-> "pdf"],
      huge_pptx |-> [exists |-> TRUE,  size |-> DocumentMaxMB * MB + 1,    ext |-> "pptx"],
      gone_pdf  |-> [exists |-> FALSE, size |-> 0,                         ext |-> "pdf"],
      notes     |-> [exists |-> TRUE,  size |-> 1024,                      ext |-> Undef],
      post_txt  |-> [exists |-> TRUE,  size |-> 5,                         ext |-> "txt"],
      blank_txt |-> [exists |-> TRUE,  size |-> 1,                         ext |-> "txt"],
      gone_txt  |-> [exists |-> FALSE, size |-> 0,                         ext |-> "txt"] ]

\* What Bun.file(path).text() reads
FileText(path) == CASE path = "post_txt" -> "hello" [] path = "blank_txt" -> " " [] OTHER -> Undef

\* text.trim().length === 0
IsBlank(text) == text \in {"", " "}

Checked(err, n) == [err |-> err, checked |-> n]

RECURSIVE photoFilesFrom(_, _)
photoFilesFrom(files, k) ==
    IF k > Len(files) THEN Checked(Ok, Len(files))
    ELSE LET f == FileSystem[files[k]]
         IN  IF ~f.exists THEN Checked(UserError("File not found", <<files[k]>>, <<>>), k)
             ELSE IF f.size > PhotoMaxMB * MB
             THEN Checked(UserError("File exceeds 8MB limit", <<files[k]>>, <<>>), k)
             ELSE IF f.ext \notin {"jpg", "jpeg", "png", "gif"}
             THEN Checked(UserError("Unsupported format", <<files[k]>>, <<>>), k)
             ELSE photoFilesFrom(files, k + 1)

\* validatePhotoFiles: the outcome and the number of files looked at
validatePhotoFiles(files) == photoFilesFrom(files, 1)

\* validateVideoFile: no size ceiling; the size is returned
validateVideoFile(path) ==
    LET f == FileSystem[path]
    IN  IF ~f.exists THEN UserError("File not found", <<path>>, <<>>)
        ELSE IF f.ext \notin {"mp4", "mov", "webm", "avi"}
        THEN UserError("Unsupported video format", <<path>>, <<>>)
        ELSE Ok

validateDocumentFile(path) ==
    LET f == FileSystem[path]
    IN  IF ~f.exists THEN UserError("File not found", <<path>>, <<>>)
        ELSE IF f.size > DocumentMaxMB * MB
        THEN UserError("File exceeds 100MB limit", <<path>>, <<>>)
        ELSE IF f.ext \notin {"pdf", "ppt", "pptx", "doc", "docx"}
        THEN UserError("Unsupported format", <<path>>, <<>>)
        ELSE Ok

(***************************************************************************)
(* ApiClient.  The upstream's answer to one fetch is an input u: the       *)
(* transport either fails (timeout, DNS failure, connection refused) or    *)
(* delivers a response, which is a rejection (with or without a JSON       *)
(* message, or a 429 with usage counters), a body that is not JSON, or the *)
(* JSON body u.body.                                                       *)
(***************************************************************************)
\* The usage counters of a 429 response, and their absence
Usage(count, limit, remaining) ==
    [set |-> TRUE, count |-> count, limit |-> limit, remaining |-> remaining]

NoUsage == [set |-> FALSE, count |-> 0, limit |-> 0, remaining |-> 0]

\* ApiError: the message, the HTTP status of the response and the upstream's
\* message.  The class has no usage field: reading it gives undefined.
ApiError(m, statusCode, apiMessage) ==
    [ kind |-> "ApiError", msg |-> m, items |-> <<>>, hint |-> <<>>,
      statusCode |-> statusCode, apiMessage |-> apiMessage, usage |-> NoUsage ]

NetworkError(m) == [kind |-> "NetworkError", msg |-> m, items |-> <<>>, hint |-> <<>>]

\* RateLimitError: an ApiError of status 429 that carries the usage counters
RateLimitError(m, usage) == [ApiError(m, 429, m) EXCEPT !.usage = usage]

TransportFailures == {"timeout", "dns", "refused"}

Rejections == {"rejected", "rejectedPlain", "rateLimited"}

UpstreamKinds == {"ok", "badjson"} \cup Rejections \cup TransportFailures

Upstream(kind, body) == [kind |-> kind, body |-> body]

\* response.status of the answers that are responses
statusOf(u) ==
    CASE u.kind = "rejected"      -> 400
      [] u.kind = "rejectedPlain" -> 500
      [] u.kind = "rateLimited"   -> 429
      [] OTHER                    -> 200

\* response.ok
responseOk(status) == status \in 200..299

\* JSON.parse of the text of a rejection: the parsed body, or none when the
\* text is not JSON
errorBodyOf(u) ==
    CASE u.kind = "rejected"    ->
            [json |-> TRUE, message |-> "Invalid platform", usage |-> NoUsage]
      [] u.kind = "rateLimited" ->
            [json |-> TRUE, message |-> "Rate limit exceeded", usage |-> Usage(100, 100, 0)]
      [] OTHER                  ->
            [json |-> FALSE, message |-> Undef, usage |-> NoUsage]

\* The default message of a rejection, `API error: <status>`
defaultErrorMessage(status) == "API error: " \o ToString(status)

\* What one call of the client did: the value returned or the error thrown,
\* and the number of fetch calls it made
Called(res, body, fetches) == [res |-> res, body |-> body, fetches |-> fetches]

\* The handling of a response that is not ok: the message of the parsed
\* body, else the default message, in an ApiError with the response's status
rejectionOf(u) ==
    LET parsed == errorBodyOf(u)
        errorMessage == IF parsed.json THEN parsed.message
                        ELSE defaultErrorMessage(statusOf(u))
    IN  ApiError(errorMessage, statusOf(u), errorMessage)

\* The catch block in which every error, ApiError included, leaves as a
\* NetworkError
afterFetchWrappingAll(u, timeoutMessage) ==
    CASE u.kind = "timeout"       -> NetworkError(timeoutMessage)
      [] u.kind = "dns"           -> NetworkError("getaddrinfo ENOTFOUND")
      [] u.kind = "refused"       -> NetworkError("ECONNREFUSED")
      [] u.kind \in Rejections    -> NetworkError(rejectionOf(u).msg)
      [] u.kind = "badjson"       -> NetworkError("Invalid JSON response from API")
      [] u.kind = "ok"            -> Ok

\* The catch block and the response handling shared by request and
\* uploadRequest, which differ in the timeout only
afterFetch(u, timeoutMessage) ==
    CASE u.kind = "timeout"       -> NetworkError(timeoutMessage)
      [] u.kind = "dns"           -> NetworkError("getaddrinfo ENOTFOUND")
      [] u.kind = "refused"       -> NetworkError("ECONNREFUSED")
      [] u.kind \in Rejections    -> rejectionOf(u)
      [] u.kind = "badjson"       -> ApiError("Invalid JSON response from API", statusOf(u),
                                              "Response body was not valid JSON")
      [] u.kind = "ok"            -> Ok

requestRetryingTransport(u, body0) ==
    Called(afterFetch(u, "Request timeout after 30 seconds"),
           IF u.kind = "ok" THEN u.body ELSE body0,
           IF u.kind \in TransportFailures THEN 2 ELSE 1)

\* ApiClient.request: one fetch, then the response or the error
request(u, body0) ==
    Called(afterFetch(u, "Request timeout after 30 seconds"),
           IF u.kind = "ok" THEN u.body ELSE body0, 1)

\* ApiClient.uploadRequest: the same with the upload timeout
uploadRequest(u, body0) ==
    Called(afterFetch(u, "Request timeout after 120 seconds"),
           IF u.kind = "ok" THEN u.body ELSE body0, 1)

\* A handler that exits 1 for every error
exitCodeAlwaysOne(res) == IF res.kind = "ok" THEN 0 ELSE 1

\* EXIT_CODES, and the exit handleError gives every other Error
exitCode(res) ==
    CASE res.kind = "ok"           -> 0
      [] res.kind = "UserError"    -> 1
      [] res.kind = "ApiError"     -> 2
      [] res.kind = "NetworkError" -> 3
      [] OTHER                     -> 1

(***************************************************************************)
(* The post commands.  An invocation i holds the parsed flags (values and  *)
(* globalFlags), the environment, the config file's content (cfg...) and   *)
(* the clock.  Of the platform-specific overrides only those with a config *)
(* default are modelled; the others are copied when given, like            *)
(* first_comment.                                                          *)
(***************************************************************************)
NoNumber == [set |-> FALSE, nan |-> FALSE, n |-> 0]

NumberFrom(k) == [set |-> TRUE, nan |-> FALSE, n |-> k]

NotANumber == [set |-> TRUE, nan |-> TRUE, n |-> 0]

NoRequest ==
    [ type |-> "none", profile |-> Undef, platforms |-> NoList, text |-> Undef,
      title |-> Undef, description |-> Undef, files |-> NoList, urls |-> NoList,
      file |-> Undef, url |-> Undef, schedule |-> Unscheduled, timezone |-> Undef,
      queue |-> Undef, async |-> Undef, first_comment |-> Undef,
      x_poll_options |-> NoList, x_poll_duration |-> NoNumber,
      facebook_page |-> Undef, pinterest_board |-> Undef, reddit_subreddit |-> Undef,
      linkedin_page |-> Undef, linkedin_visibility |-> Undef,
      youtube_privacy |-> Undef, youtube_category |-> Undef, tiktok_privacy |-> Undef ]

\* PostResult and PlatformResult; results is the map's entries in key order
PlatformResult(p, ok, url, err) ==
    [platform |-> p, success |-> ok, url |-> url, error |-> err]

NoBody ==
    [ scheduled |-> Undef, results |-> NoList, job_id |-> Undef,
      scheduled_date |-> Undef, request_id |-> Undef ]

\* OutputFormatter's mode: a forced mode, else json off a terminal
formatterMode(jsonFlag, prettyFlag, isTTY) ==
    IF jsonFlag THEN "json"
    ELSE IF prettyFlag THEN "pretty"
    ELSE IF ~isTTY THEN "json"
    ELSE "pretty"

\* What the command printed on success
NotShown ==
    [ mode |-> "none", outcome |-> "none", job_id |-> Undef, scheduled_date |-> Undef,
      request_id |-> Undef, successCount |-> NoNumber, lines |-> <<>>, raw |-> NoBody ]

outcomeOfResultsFirst(result) ==
    IF result.results.set THEN "Immediate"
    ELSE IF result.scheduled = "true" THEN "Scheduled"
    ELSE "Async"

\* if (result.scheduled) ... else if (result.results) ... else ...
outcomeOf(result) ==
    IF result.scheduled = "true" THEN "Scheduled"
    ELSE IF result.results.set THEN "Immediate"
    ELSE "Async"

resultLinesSuccessOnly(rs) ==
    LET printed == SelectSeq(rs, LAMBDA r : r.success /\ Truthy(r.url))
    IN  [k \in 1..Len(printed) |->
            [platform |-> printed[k].platform, text |-> printed[k].url]]

\* "Show results per platform": a line for a success that has a url and for
\* a failure that has an error
resultLines(rs) ==
    LET printed == SelectSeq(rs, LAMBDA r : \/ r.success /\ Truthy(r.url)
                                            \/ ~r.success /\ Truthy(r.error))
    IN  [k \in 1..Len(printed) |->
            [platform |-> printed[k].platform,
             text |-> IF printed[k].success THEN printed[k].url ELSE "FAILED"]]

\* "Display results" of the post commands
display(cmd, mode, result) ==
    IF mode = "json" THEN [NotShown EXCEPT !.mode = "json", !.outcome = "raw", !.raw = result]
    ELSE IF outcomeOf(result) = "Scheduled"
    THEN [NotShown EXCEPT !.mode = "pretty", !.outcome = "Scheduled",
                          !.job_id = result.job_id,
                          !.scheduled_date = result.scheduled_date]
    ELSE IF outcomeOf(result) = "Immediate"
    THEN [NotShown EXCEPT !.mode = "pretty", !.outcome = "Immediate",
                          !.successCount =
                              IF cmd = "document" THEN NoNumber
                              ELSE NumberFrom(Len(SelectSeq(result.results.v,
                                                            LAMBDA r : r.success))),
                          !.lines = resultLines(result.results.v)]
    ELSE [NotShown EXCEPT !.mode = "pretty", !.outcome = "Async",
                          !.request_id = OrElse(result.request_id, "N/A")]

\* The values of --async: Undef when the flag is absent and has no default,
\* "false" for the default false, "true" for --async, and the string the
\* non-strict parseArgs stores for an inline value, as in --async=false
InlineFalse == "false (string)"

AsyncValues == {Undef, "false", "true", InlineFalse}

\* JavaScript truthiness of an async value: a string that is not empty is
\* truthy
asyncTruthy(a) == a \in {"true", InlineFalse}

\* String(params.async)
asyncString(a) == IF a = InlineFalse THEN "false" ELSE a

\* The multipart payload of the ApiClient post methods: the endpoint, and of
\* the fields appended those the post types share
NoFormData ==
    [ endpoint |-> "none", user |-> Undef, platform |-> NoList, title |-> Undef,
      scheduled_date |-> Unscheduled, timezone |-> Undef, add_to_queue |-> Undef,
      async_upload |-> Undef ]

\* A payload that sends async_upload whenever the request has an async value
formDataAsyncAlways(params) ==
    [ NoFormData EXCEPT
        !.endpoint = CASE params.type = "text"     -> "/upload_text"
                       [] params.type = "photo"    -> "/upload_photos"
                       [] params.type = "video"    -> "/upload"
                       [] params.type = "document" -> "/upload_document",
        !.user = params.profile,
        !.platform = IF params.type = "document" THEN NoList ELSE ListOf(params.platforms.v),
        !.title = IF params.type = "text" THEN params.text ELSE params.title,
        !.scheduled_date = params.schedule,
        !.timezone = IfGiven(params.timezone),
        !.add_to_queue = params.queue,
        !.async_upload = IF params.async /= Undef THEN asyncString(params.async)
                         ELSE Undef ]

\* A document payload that lists linkedin as its platform
formDataDocumentPlatform(params) ==
    [ NoFormData EXCEPT
        !.endpoint = CASE params.type = "text"     -> "/upload_text"
                       [] params.type = "photo"    -> "/upload_photos"
                       [] params.type = "video"    -> "/upload"
                       [] params.type = "document" -> "/upload_document",
        !.user = params.profile,
        !.platform = IF params.type = "document" THEN ListOf(<<"linkedin">>)
                     ELSE ListOf(params.platforms.v),
        !.title = IF params.type = "text" THEN params.text ELSE params.title,
        !.scheduled_date = params.schedule,
        !.timezone = IfGiven(params.timezone),
        !.add_to_queue = params.queue,
        !.async_upload = IF asyncTruthy(params.async) THEN asyncString(params.async)
                         ELSE Undef ]

\* postText, postPhotos, postVideo and postDocument up to uploadRequest
formData(params) ==
    [ NoFormData EXCEPT
        !.endpoint = CASE params.type = "text"     -> "/upload_text"
                       [] params.type = "photo"    -> "/upload_photos"
                       [] params.type = "video"    -> "/upload"
                       [] params.type = "document" -> "/upload_document",
        !.user = params.profile,
        !.platform = IF params.type = "document" THEN NoList ELSE ListOf(params.platforms.v),
        !.title = IF params.type = "text" THEN params.text ELSE params.title,
        !.scheduled_date = params.schedule,
        !.timezone = IfGiven(params.timezone),
        !.add_to_queue = params.queue,
        !.async_upload = IF asyncTruthy(params.async) THEN asyncString(params.async)
                         ELSE Undef ]

\* What one invocation did: the error thrown or the normal return, the request
\* built (postParams), the media files looked at, the API calls made, the
\* payload sent, and what was printed
Outcome(res, req, n, calls) ==
    [res |-> res, request |-> req, filesChecked |-> n, httpCalls |-> calls,
     shown |-> NotShown, wire |-> NoFormData]

Failed(err, n) == Outcome(err, NoRequest, n, 0)

DryRun == [kind |-> "ok", msg |-> "dry run", items |-> <<>>, hint |-> <<>>]

Posted == [kind |-> "ok", msg |-> "posted", items |-> <<>>, hint |-> <<>>]

\* getApiKey
getApiKey(flagValue, envValue, configValue) ==
    LET apiKey == resolveValue(flagValue, envValue, configValue, "")
    IN  IF ~Truthy(apiKey) THEN UserError("API key not found", <<>>, <<>>) ELSE Ok

DeliverCallingOnDryRun(i, req, n) ==
    LET mode == formatterMode(i.json, i.pretty, i.isTTY)
        call == uploadRequest(i.upstream, NoBody)
    IN  IF getApiKey(i.apiKey, i.envApiKey, i.cfgApiKey) /= Ok
        THEN Outcome(getApiKey(i.apiKey, i.envApiKey, i.cfgApiKey), req, n, 0)
        ELSE IF call.res /= Ok
        THEN [Outcome(call.res, req, n, call.fetches) EXCEPT !.wire = formData(req)]
        ELSE IF i.dryRun
        THEN [Outcome(DryRun, req, n, call.fetches) EXCEPT
                 !.shown = [NotShown EXCEPT !.mode = mode, !.outcome = "payload"],
                 !.wire = formData(req)]
        ELSE [Outcome(Posted, req, n, call.fetches) EXCEPT
                 !.shown = display(i.cmd, mode, call.body), !.wire = formData(req)]

\* The tail of every post command: dry run, API key, the API call, the
\* display of its result
Deliver(i, req, n) ==
    LET mode == formatterMode(i.json, i.pretty, i.isTTY)
        call == uploadRequest(i.upstream, NoBody)
    IN  IF i.dryRun
        THEN [Outcome(DryRun, req, n, 0) EXCEPT
                 !.shown = [NotShown EXCEPT !.mode = mode, !.outcome = "payload"]]
        ELSE IF getApiKey(i.apiKey, i.envApiKey, i.cfgApiKey) /= Ok
        THEN Outcome(getApiKey(i.apiKey, i.envApiKey, i.cfgApiKey), req, n, 0)
        ELSE IF call.res /= Ok
        THEN [Outcome(call.res, req, n, call.fetches) EXCEPT !.wire = formData(req)]
        ELSE [Outcome(Posted, req, n, call.fetches) EXCEPT
                 !.shown = display(i.cmd, mode, call.body), !.wire = formData(req)]

\* values.profile || globalFlags.profile || getDefaultProfile(undefined, config)
resolveProfile(i) ==
    OrElse(OrElse(i.profile, i.globalProfile),
           resolveValue(Undef, i.envProfile, i.cfgProfile, Undef))

ProfileRequired == UserError("Profile required", <<>>, <<>>)

PlatformsRequired == UserError("Platforms required", <<>>, <<>>)

Resolved(err, platforms) == [err |-> err, platforms |-> platforms]

\* "Resolve platforms" of post text, photo and video
resolvePlatforms(i) ==
    IF RawTruthy(i.platforms)
    THEN Resolved(validatePlatforms(parseList(i.platforms.v)), parseList(i.platforms.v))
    ELSE IF i.cfgPlatforms.set /\ Len(i.cfgPlatforms.v) > 0
    THEN Resolved(Ok, i.cfgPlatforms.v)
    ELSE Resolved(PlatformsRequired, <<>>)

textRequirementParamsFlagOnly(i) ==
    [ facebook_page    |-> i.facebookPage,
      pinterest_board  |-> Undef,
      reddit_subreddit |-> i.redditSubreddit ]

\* params of post text: no pinterest_board key
textRequirementParams(i) ==
    [ facebook_page    |-> OrElse(i.facebookPage, i.cfgFacebookPage),
      pinterest_board  |-> Undef,
      reddit_subreddit |-> OrElse(i.redditSubreddit, i.cfgRedditSubreddit) ]

\* params of post photo and post video
mediaRequirementParams(i) ==
    [ facebook_page    |-> OrElse(i.facebookPage, i.cfgFacebookPage),
      pinterest_board  |-> OrElse(i.pinterestBoard, i.cfgPinterestBoard),
      reddit_subreddit |-> OrElse(i.redditSubreddit, i.cfgRedditSubreddit) ]

ScheduleQueueExclusive == UserError("--schedule and --queue are mutually exclusive", <<>>, <<>>)

scheduleQueueGateMissing(i) == Ok

\* Scheduling checks that look at the date and the timezone before the
\* exclusion
schedulingGatesDateFirst(i) ==
    IF ScheduleTruthy(i.schedule) /\ validateISODate(i.schedule.date, i.now) /= Ok
    THEN validateISODate(i.schedule.date, i.now)
    ELSE IF Truthy(i.timezone) /\ validateTimezone(i.timezone) /= Ok
    THEN validateTimezone(i.timezone)
    ELSE IF ScheduleTruthy(i.schedule) /\ i.queue THEN ScheduleQueueExclusive
    ELSE Ok

\* if (values.schedule && values.queue) throw
scheduleQueueGate(i) ==
    IF ScheduleTruthy(i.schedule) /\ i.queue THEN ScheduleQueueExclusive ELSE Ok

\* "Validate scheduling flags": exclusion, then the date, then the timezone
schedulingGates(i) ==
    IF scheduleQueueGate(i) /= Ok THEN scheduleQueueGate(i)
    ELSE IF ScheduleTruthy(i.schedule) /\ validateISODate(i.schedule.date, i.now) /= Ok
    THEN validateISODate(i.schedule.date, i.now)
    ELSE IF Truthy(i.timezone) THEN validateTimezone(i.timezone)
    ELSE Ok

\* The fields every post command copies into postParams when given
withCommonFields(req, i) ==
    [ req EXCEPT
        !.description = IF i.cmd = "text" THEN Undef ELSE IfGiven(i.description),
        !.schedule = IF ScheduleTruthy(i.schedule) THEN i.schedule ELSE Unscheduled,
        !.timezone = IfGiven(i.timezone),
        !.queue = IF i.queue THEN "true" ELSE Undef ]

\* The overrides post text, photo and video copy from their flags alone
withFlagOverrides(req, i) ==
    [ req EXCEPT
        !.first_comment = IfGiven(i.firstComment),
        !.facebook_page = IfGiven(i.facebookPage),
        !.reddit_subreddit = IfGiven(i.redditSubreddit),
        !.pinterest_board = IF i.cmd = "text" THEN Undef ELSE IfGiven(i.pinterestBoard),
        !.linkedin_page = IfGiven(i.linkedinPage),
        !.linkedin_visibility = IfGiven(i.linkedinVisibility),
        !.tiktok_privacy = IF i.cmd = "text" THEN Undef ELSE IfGiven(i.tiktokPrivacy),
        !.youtube_privacy = IF i.cmd = "video" THEN IfGiven(i.youtubePrivacy) ELSE Undef,
        !.youtube_category = IF i.cmd = "video" THEN IfGiven(i.youtubeCategory) ELSE Undef ]

\* if (values.async) postParams.async = values.async
asyncIfGiven(i) == IF asyncTruthy(i.async) THEN i.async ELSE Undef

(***************************************************************************)
(* post text                                                               *)
(***************************************************************************)
pollOptionsGate(i) ==
    IF i.xPollOptions.set
       /\ (Len(parseList(i.xPollOptions.v)) < 2 \/ Len(parseList(i.xPollOptions.v)) > 4)
    THEN UserError("X polls require 2-4 options", <<>>, <<>>)
    ELSE Ok

pollDurationGate(i) ==
    IF i.xPollDuration.set
       /\ (i.xPollDuration.nan \/ i.xPollDuration.n < 5 \/ i.xPollDuration.n > 10080)
    THEN UserError("Invalid poll duration", <<>>, <<>>)
    ELSE Ok

textRequest(i, profile, platforms, text) ==
    [ withFlagOverrides(withCommonFields(NoRequest, i), i) EXCEPT
        !.type = "text", !.profile = profile, !.platforms = ListOf(platforms),
        !.text = text, !.async = asyncIfGiven(i),
        !.x_poll_options = IF i.xPollOptions.set
                           THEN ListOf(parseList(i.xPollOptions.v)) ELSE NoList,
        !.x_poll_duration = i.xPollDuration ]

postText(i) ==
    LET hasBody    == Truthy(i.body)
        hasFile    == Truthy(i.textFile)
        inputModes == Cardinality({m \in {"body", "file", "stdin"} :
                          \/ m = "body" /\ hasBody
                          \/ m = "file" /\ hasFile
                          \/ m = "stdin" /\ i.stdin})
        text       == IF hasBody THEN i.body
                      ELSE IF hasFile THEN FileText(i.textFile)
                      ELSE i.stdinText
        profile    == resolveProfile(i)
        plat       == resolvePlatforms(i)
        platforms  == plat.platforms
    IN  IF inputModes = 0 THEN Failed(UserError("Text content required", <<>>, <<>>), 0)
        ELSE IF inputModes > 1
        THEN Failed(UserError("Only one text input method allowed", <<>>, <<>>), 0)
        ELSE IF ~hasBody /\ hasFile /\ ~FileSystem[i.textFile].exists
        THEN Failed(UserError("Failed to read file", <<i.textFile>>, <<>>), 0)
        ELSE IF ~Truthy(text) \/ IsBlank(text)
        THEN Failed(UserError("Text content cannot be empty", <<>>, <<>>), 0)
        ELSE IF ~Truthy(profile) THEN Failed(ProfileRequired, 0)
        ELSE IF plat.err /= Ok THEN Failed(plat.err, 0)
        ELSE IF validateContentTypeForPlatforms("text", platforms) /= Ok
        THEN Failed(validateContentTypeForPlatforms("text", platforms), 0)
        ELSE IF validatePlatformRequirements(platforms, textRequirementParams(i)) /= Ok
        THEN Failed(validatePlatformRequirements(platforms, textRequirementParams(i)), 0)
        ELSE IF schedulingGates(i) /= Ok THEN Failed(schedulingGates(i), 0)
        ELSE IF pollOptionsGate(i) /= Ok THEN Failed(pollOptionsGate(i), 0)
        ELSE IF pollDurationGate(i) /= Ok THEN Failed(pollDurationGate(i), 0)
        ELSE Deliver(i, textRequest(i, profile, platforms, text), 0)

(***************************************************************************)
(* post photo                                                              *)
(***************************************************************************)
photoSourceGate(i) ==
    validateMutuallyExclusive(
        << [key |-> "--files", val |-> RawTruthy(i.files)],
           [key |-> "--urls",  val |-> RawTruthy(i.urls)] >>,
        "Must provide either --files or --urls (not both)")

photoRequest(i, profile, platforms) ==
    [ withFlagOverrides(withCommonFields(NoRequest, i), i) EXCEPT
        !.type = "photo", !.profile = profile, !.platforms = ListOf(platforms),
        !.files = IF RawTruthy(i.files) THEN ListOf(parseList(i.files.v)) ELSE NoList,
        !.urls = IF ~RawTruthy(i.files) /\ RawTruthy(i.urls)
                 THEN ListOf(parseList(i.urls.v)) ELSE NoList,
        !.title = i.title, !.async = asyncIfGiven(i) ]

postPhoto(i) ==
    LET files     == IF RawTruthy(i.files) THEN validatePhotoFiles(parseList(i.files.v))
                     ELSE Checked(Ok, 0)
        n         == files.checked
        profile   == resolveProfile(i)
        plat      == resolvePlatforms(i)
        platforms == plat.platforms
    IN  IF photoSourceGate(i) /= Ok THEN Failed(photoSourceGate(i), 0)
        ELSE IF ~Truthy(i.title)
        THEN Failed(UserError("--title is required for photo posts", <<>>, <<>>), 0)
        ELSE IF files.err /= Ok THEN Failed(files.err, n)
        ELSE IF ~Truthy(profile) THEN Failed(ProfileRequired, n)
        ELSE IF plat.err /= Ok THEN Failed(plat.err, n)
        ELSE IF validateContentTypeForPlatforms("photo", platforms) /= Ok
        THEN Failed(validateContentTypeForPlatforms("photo", platforms), n)
        ELSE IF validatePlatformRequirements(platforms, mediaRequirementParams(i)) /= Ok
        THEN Failed(validatePlatformRequirements(platforms, mediaRequirementParams(i)), n)
        ELSE IF schedulingGates(i) /= Ok THEN Failed(schedulingGates(i), n)
        ELSE Deliver(i, photoRequest(i, profile, platforms), n)

(***************************************************************************)
(* post video                                                              *)
(***************************************************************************)
videoSourceGate(i) ==
    validateMutuallyExclusive(
        << [key |-> "--file", val |-> Truthy(i.file)],
           [key |-> "--url",  val |-> Truthy(i.url)] >>,
        "Video source required. Provide exactly one of")

shouldUseAsyncUnlessTrue(async, fileSize) ==
    IF fileSize > AsyncThresholdMB * MB /\ async /= "true" THEN "true" ELSE async

\* "Auto-async for large files (>50MB)"
shouldUseAsync(async, fileSize) ==
    IF fileSize > AsyncThresholdMB * MB /\ async = Undef THEN "true" ELSE async

videoRequest(i, profile, platforms, fileSize) ==
    [ withFlagOverrides(withCommonFields(NoRequest, i), i) EXCEPT
        !.type = "video", !.profile = profile, !.platforms = ListOf(platforms),
        !.title = i.title, !.file = IfGiven(i.file), !.url = IfGiven(i.url),
        !.async = shouldUseAsync(i.async, fileSize) ]

postVideo(i) ==
    LET profile   == resolveProfile(i)
        plat      == resolvePlatforms(i)
        platforms == plat.platforms
        n         == IF Truthy(i.file) THEN 1 ELSE 0
        fileSize  == IF Truthy(i.file) THEN FileSystem[i.file].size ELSE 0
    IN  IF videoSourceGate(i) /= Ok THEN Failed(videoSourceGate(i), 0)
        ELSE IF ~Truthy(i.title) THEN Failed(UserError("Title required", <<>>, <<>>), 0)
        ELSE IF ~Truthy(profile) THEN Failed(ProfileRequired, 0)
        ELSE IF plat.err /= Ok THEN Failed(plat.err, 0)
        ELSE IF validateContentTypeForPlatforms("video", platforms) /= Ok
        THEN Failed(validateContentTypeForPlatforms("video", platforms), 0)
        ELSE IF Truthy(i.file) /\ validateVideoFile(i.file) /= Ok
        THEN Failed(validateVideoFile(i.file), n)
        ELSE IF validatePlatformRequirements(platforms, mediaRequirementParams(i)) /= Ok
        THEN Failed(validatePlatformRequirements(platforms, mediaRequirementParams(i)), n)
        ELSE IF schedulingGates(i) /= Ok THEN Failed(schedulingGates(i), n)
        ELSE Deliver(i, videoRequest(i, profile, platforms, fileSize), n)

(***************************************************************************)
(* post document                                                           *)
(***************************************************************************)
documentSourceGate(i) ==
    validateMutuallyExclusive(
        << [key |-> "--file", val |-> Truthy(i.file)],
           [key |-> "--url",  val |-> Truthy(i.url)] >>,
        "Must provide either --file or --url (not both)")

LinkedInOnly(nonLinkedin) ==
    UserError("Document posts are only supported on LinkedIn", nonLinkedin, <<>>)

documentPlatformGateFirstEntry(i) ==
    IF RawTruthy(i.platforms) /\ Len(parseList(i.platforms.v)) > 0
       /\ parseList(i.platforms.v)[1] /= "linkedin"
    THEN LinkedInOnly(<<parseList(i.platforms.v)[1]>>)
    ELSE Ok

\* "Documents are LinkedIn-only - validate if user passed --platforms"
documentPlatformGate(i) ==
    IF RawTruthy(i.platforms)
    THEN LET nonLinkedin == SelectSeq(parseList(i.platforms.v), LAMBDA p : p /= "linkedin")
         IN  IF Len(nonLinkedin) > 0 THEN LinkedInOnly(nonLinkedin) ELSE Ok
    ELSE Ok

documentRequest(i, profile) ==
    [ withCommonFields(NoRequest, i) EXCEPT
        !.type = "document", !.profile = profile,
        !.file = i.file, !.url = i.url, !.title = i.title,
        !.linkedin_page = IfGiven(OrElse(i.linkedinPage, i.cfgLinkedinPage)),
        !.linkedin_visibility = IfGiven(OrElse(i.linkedinVisibility, i.cfgLinkedinVisibility)),
        !.async = asyncIfGiven(i) ]

postDocument(i) ==
    LET profile == resolveProfile(i)
        n       == IF Truthy(i.file) THEN 1 ELSE 0
    IN  IF documentSourceGate(i) /= Ok THEN Failed(documentSourceGate(i), 0)
        ELSE IF ~Truthy(i.title)
        THEN Failed(UserError("--title is required for document posts", <<>>, <<>>), 0)
        ELSE IF Truthy(i.file) /\ validateDocumentFile(i.file) /= Ok
        THEN Failed(validateDocumentFile(i.file), n)
        ELSE IF ~Truthy(profile) THEN Failed(ProfileRequired, n)
        ELSE IF documentPlatformGate(i) /= Ok THEN Failed(documentPlatformGate(i), n)
        ELSE IF schedulingGates(i) /= Ok THEN Failed(schedulingGates(i), n)
        ELSE Deliver(i, documentRequest(i, profile), n)

(***************************************************************************)
(* Library calls: each function applied once to arguments drawn from       *)
(* bounded sets (specification SpecLib)                                    *)
(***************************************************************************)
PlatformLists == SeqsUpTo(Range(ALL_PLATFORMS), MaxListLen)

OptionalStrings(v) == {Undef, "", v}

DateOffsets ==
    { 0 - DaySeconds, 0 - 1, 0, 1, 364 * DaySeconds,
      MaxScheduleDays * DaySeconds - 1, MaxScheduleDays * DaySeconds,
      MaxScheduleDays * DaySeconds + 1, 400 * DaySeconds }

DateInputs(now) == {NotADate} \cup {DateAt(now + d) : d \in DateOffsets}

\* The answers of the upstream to the one fetch of a client call
LibUpstreams ==
    { Upstream(k, b) : k \in UpstreamKinds,
                       b \in {NoBody, [NoBody EXCEPT !.request_id = "req"]} }

LibCalls ==
    [op : {"resolveValue"}, flagValue : OptionalStrings("A"), envValue : OptionalStrings("B"),
     configValue : OptionalStrings("C"), defaultValue : {Undef, "D"}]
    \cup [op : {"getPlatformsForContentType"}, contentType : ContentTypes]
    \cup [op : {"validateContentTypeForPlatforms"}, contentType : ContentTypes,
          platforms : PlatformLists]
    \cup [op : {"validatePlatformRequirements"}, platforms : PlatformLists,
          params : [facebook_page : OptionalStrings("pg"),
                    pinterest_board : OptionalStrings("bd"),
                    reddit_subreddit : OptionalStrings("sr")]]
    \cup UNION { [op : {"validateISODate"}, now : {now}, date : DateInputs(now)]
                 : now \in 0..MaxNow }
    \cup [op : {"request", "uploadRequest"}, upstream : LibUpstreams]

InitLib ==
    /\ inv \in LibCalls
    /\ pc = "ready"
    /\ out = Ok

Return(o) ==
    /\ pc = "ready"
    /\ pc' = "done"
    /\ out' = o
    /\ UNCHANGED inv

CallResolveValue ==
    /\ inv.op = "resolveValue"
    /\ Return([kind |-> "value",
               value |-> resolveValue(inv.flagValue, inv.envValue,
                                      inv.configValue, inv.defaultValue)])

CallGetPlatformsForContentType ==
    /\ inv.op = "getPlatformsForContentType"
    /\ Return([kind |-> "value", value |-> getPlatformsForContentType(inv.contentType)])

CallValidateContentType ==
    /\ inv.op = "validateContentTypeForPlatforms"
    /\ Return(validateContentTypeForPlatforms(inv.contentType, inv.platforms))

CallValidatePlatformRequirements ==
    /\ inv.op = "validatePlatformRequirements"
    /\ Return(validatePlatformRequirements(inv.platforms, inv.params))

CallValidateISODate ==
    /\ inv.op = "validateISODate"
    /\ Return(validateISODate(inv.date, inv.now))

CallRequest ==
    /\ inv.op = "request"
    /\ Return(request(inv.upstream, NoBody))

CallUploadRequest ==
    /\ inv.op = "uploadRequest"
    /\ Return(uploadRequest(inv.upstream, NoBody))

NextLib ==
    \/ CallRequest
    \/ CallUploadRequest
    \/ CallResolveValue
    \/ CallGetPlatformsForContentType
    \/ CallValidateContentType
    \/ CallValidatePlatformRequirements
    \/ CallValidateISODate

SpecLib == InitLib /\ [][NextLib]_vars

Returned(op) == pc = "done" /\ inv.op = op

(***************************************************************************)
(* Claims on the library functions                                         *)
(***************************************************************************)
\* The k-th smallest member of a set of indices
KthIndex(S, k) == CHOOSE i \in S : Cardinality({j \in S : j < i}) = k - 1

\* list is the elements of s at the indices in S, in the order of s
IsSelection(list, s, S) ==
    /\ Len(list) = Cardinality(S)
    /\ \A k \in 1..Len(list) : list[k] = s[KthIndex(S, k)]

UnsupportedAt(type, platforms) ==
    {i \in 1..Len(platforms) : ~PLATFORM_CAPABILITIES[platforms[i]][type]}

\* C1: validateContentTypeForPlatforms throws a UserError iff some listed
\* platform lacks the content type in the capability matrix, and the one
\* message names every unsupported platform of the input, in input order.
C1_ContentTypeNamesEveryOffender ==
    Returned("validateContentTypeForPlatforms") =>
        LET bad == UnsupportedAt(inv.contentType, inv.platforms)
        IN  /\ out.kind = "UserError" <=> bad /= {}
            /\ bad = {} => out = Ok
            /\ bad /= {} =>
                 /\ out.msg = "does not support"
                 /\ IsSelection(out.items, inv.platforms, bad)

C1_Witness ==
    /\ Returned("validateContentTypeForPlatforms")
    /\ inv.contentType = "text"
    /\ inv.platforms = <<"instagram", "tiktok">>
    /\ out.items = <<"instagram", "tiktok">>

\* C3: resolveValue returns the flag when it is defined, else the environment
\* value when defined, else the config value when defined, else the default.
C3_ResolvePrecedence ==
    Returned("resolveValue") =>
        /\ inv.flagValue /= Undef => out.value = inv.flagValue
        /\ (inv.flagValue = Undef /\ inv.envValue /= Undef) => out.value = inv.envValue
        /\ (inv.flagValue = Undef /\ inv.envValue = Undef /\ inv.configValue /= Undef)
              => out.value = inv.configValue
        /\ (inv.flagValue = Undef /\ inv.envValue = Undef /\ inv.configValue = Undef)
              => out.value = inv.defaultValue

C3_Witness ==
    /\ Returned("resolveValue")
    /\ inv.flagValue = Undef /\ inv.envValue = "B"
    /\ inv.configValue = "C" /\ inv.defaultValue = "D"
    /\ out.value = "B"

\* C6: validateISODate fails on a date that does not parse, on t <= now and on
\* t more than 365 days after now, each with the message of the bound crossed,
\* and succeeds for every t with now < t <= now + 365 days.
C6_ScheduleWindow ==
    Returned("validateISODate") =>
        LET limit == inv.now + 365 * 86400
        IN  /\ ~inv.date.parses =>
                 out.kind = "UserError" /\ out.msg = "Invalid ISO-8601 date"
            /\ (inv.date.parses /\ inv.date.t <= inv.now) =>
                 out.kind = "UserError" /\ out.msg = "Schedule date must be in the future"
            /\ (inv.date.parses /\ inv.date.t > limit) =>
                 /\ out.kind = "UserError"
                 /\ out.msg = "Schedule date must be within 365 days from now"
            /\ (inv.date.parses /\ inv.now < inv.date.t /\ inv.date.t <= limit) =>
                 out = Ok

C6_Witness ==
    /\ Returned("validateISODate")
    /\ inv.date.parses /\ inv.date.t = inv.now
    /\ out.msg = "Schedule date must be in the future"

\* list holds exactly the platforms capable of type, in ALL_PLATFORMS order
IsCanonicalSupportList(type, list) ==
    IsSelection(list, ALL_PLATFORMS,
                {i \in 1..Len(ALL_PLATFORMS) : PLATFORM_CAPABILITIES[ALL_PLATFORMS[i]][type]})

\* C9: getPlatformsForContentType returns exactly the platforms whose
\* capability for the type is true, in the order of ALL_PLATFORMS; the hint of
\* a content-type error is that list; for text it is the set x, linkedin,
\* facebook, threads, reddit, bluesky.
C9_SupportedListCanonical ==
    /\ Returned("getPlatformsForContentType") =>
         /\ IsCanonicalSupportList(inv.contentType, out.value)
         /\ inv.contentType = "text" =>
              Range(out.value) = {"x", "linkedin", "facebook", "threads", "reddit", "bluesky"}
    /\ (Returned("validateContentTypeForPlatforms") /\ out.kind = "UserError") =>
         IsCanonicalSupportList(inv.contentType, out.hint)

C9_Witness ==
    /\ Returned("validateContentTypeForPlatforms")
    /\ inv.contentType = "text"
    /\ inv.platforms = <<"instagram">>
    /\ out.hint = <<"linkedin", "facebook", "x", "threads", "reddit", "bluesky">>

\* C11: the capability matrix has an entry for exactly the ten enumerated
\* platforms, every platform supports at least one content type, and document
\* is supported by linkedin alone; the functions that consult the matrix
\* answer from these entries on every call.
C11_CapabilityMatrix ==
    /\ Len(ALL_PLATFORMS) = 10
    /\ Cardinality(Range(ALL_PLATFORMS)) = 10
    /\ DOMAIN PLATFORM_CAPABILITIES = Range(ALL_PLATFORMS)
    /\ \A p \in DOMAIN PLATFORM_CAPABILITIES :
          /\ DOMAIN PLATFORM_CAPABILITIES[p] = ContentTypes
          /\ \E t \in ContentTypes : PLATFORM_CAPABILITIES[p][t]
          /\ PLATFORM_CAPABILITIES[p]["document"] <=> p = "linkedin"
    /\ (Returned("getPlatformsForContentType") /\ inv.contentType = "document")
          => out.value = <<"linkedin">>
    /\ (Returned("validateContentTypeForPlatforms") /\ inv.contentType = "document")
          => (out = Ok <=> Range(inv.platforms) \subseteq {"linkedin"})

C11_Witness ==
    /\ Returned("validateContentTypeForPlatforms")
    /\ inv.contentType = "document"
    /\ inv.platforms = <<"linkedin", "facebook">>
    /\ out.items = <<"facebook">>

Commands == {"text", "photo", "video", "document"}

\* A complete, valid invocation of each command, which the families below vary
BaseInvocation(c) ==
    [ op |-> "post", cmd |-> c, now |-> 0,
      platforms |-> ListOf(<<"linkedin">>), envPlatforms |-> NoList, cfgPlatforms |-> NoList,
      profile |-> "demo", globalProfile |-> Undef, envProfile |-> Undef, cfgProfile |-> Undef,
      apiKey |-> Undef, envApiKey |-> Undef, cfgApiKey |-> "key",
      schedule |-> Unscheduled, queue |-> FALSE, timezone |-> Undef,
      async |-> IF c = "video" THEN Undef ELSE "false", dryRun |-> FALSE,
      json |-> FALSE, pretty |-> FALSE, isTTY |-> TRUE,
      upstream |-> Upstream("ok",
          [NoBody EXCEPT !.results =
              ListOf(<<PlatformResult("linkedin", TRUE, "url", Undef)>>)]),
      firstComment |-> Undef, description |-> Undef,
      title |-> IF c = "text" THEN Undef ELSE "T",
      body |-> IF c = "text" THEN "hello" ELSE Undef,
      textFile |-> Undef, stdin |-> FALSE, stdinText |-> "",
      xPollOptions |-> NoList, xPollDuration |-> NoNumber,
      files |-> IF c = "photo" THEN ListOf(<<"a_jpg">>) ELSE NoList, urls |-> NoList,
      file |-> CASE c = "video" -> "under_mov" [] c = "document" -> "deck_pdf" [] OTHER -> Undef,
      url |-> Undef,
      facebookPage |-> Undef, cfgFacebookPage |-> Undef,
      pinterestBoard |-> Undef, cfgPinterestBoard |-> Undef,
      redditSubreddit |-> Undef, cfgRedditSubreddit |-> Undef,
      linkedinPage |-> Undef, cfgLinkedinPage |-> Undef,
      linkedinVisibility |-> Undef, cfgLinkedinVisibility |-> Undef,
      youtubePrivacy |-> Undef, cfgYoutubePrivacy |-> Undef,
      youtubeCategory |-> Undef, cfgYoutubeCategory |-> Undef,
      tiktokPrivacy |-> Undef, cfgTiktokPrivacy |-> Undef ]

MaxRawLen == 3

\* The values of --platforms: absent, or a string of at most MaxRawLen pieces
RawPlatformLists ==
    {NoList} \cup
    { ListOf(str) : str \in
        { r \in SeqsUpTo({",", " ", "linkedin", "facebook", "pinterest", "bogus"}, MaxRawLen)
            : WellFormedRaw(r) } }

\* The values of config default_platforms, which validateConfig only requires
\* to be an array
ConfigPlatformLists ==
    {NoList} \cup
    { ListOf(l) : l \in SeqsUpTo({"facebook", "pinterest", "reddit", "x", "bogus"}, MaxListLen) }

PlatformInvocations ==
    \E c \in Commands, r \in RawPlatformLists,
        e \in {NoList, ListOf(<<"x">>)}, cl \in {NoList, ListOf(<<"facebook">>)},
        f \in {Undef, "pg"} \X {Undef, "cpg"}, pb \in {Undef, "bd"} :
        inv = [ BaseInvocation(c) EXCEPT
              !.platforms = r, !.envPlatforms = e, !.cfgPlatforms = cl,
              !.facebookPage = f[1], !.cfgFacebookPage = f[2], !.pinterestBoard = pb ]

RequirementInvocations ==
    \E c \in Commands, cl \in ConfigPlatformLists,
        f \in {Undef, "", "pg"} \X {Undef, "cpg"},
        pb \in {Undef, "bd"} \X {Undef, "cbd"},
        sr \in {Undef, "sr"} \X {Undef, "csr"} :
        inv = [ BaseInvocation(c) EXCEPT
              !.platforms = NoList, !.cfgPlatforms = cl,
              !.facebookPage = f[1], !.cfgFacebookPage = f[2],
              !.pinterestBoard = pb[1], !.cfgPinterestBoard = pb[2],
              !.redditSubreddit = sr[1], !.cfgRedditSubreddit = sr[2] ]

ScheduleInvocations ==
    \E c \in Commands, now \in 0..MaxNow,
        sch \in {Unscheduled, EmptySchedule}
                \cup {ScheduleOf(d) : d \in DateInputs(0) \cup DateInputs(MaxNow)},
        q \in BOOLEAN, tz \in {Undef, "UTC", "Mars/Olympus"},
        dry \in BOOLEAN, pr \in {Undef, "demo"},
        pl \in { <<ListOf(<<"linkedin">>), NoList>>, <<NoList, NoList>>,
                 <<NoList, ListOf(<<"x">>)>>, <<NoList, ListOf(<<"bogus">>)>> } :
        inv = [ BaseInvocation(c) EXCEPT
              !.now = now, !.schedule = sch, !.queue = q, !.timezone = tz,
              !.dryRun = dry, !.profile = pr,
              !.platforms = pl[1], !.cfgPlatforms = pl[2] ]

TextInvocations ==
    \E b \in {Undef, "", " ", "hello"},
        tf \in {Undef, "post_txt", "blank_txt", "gone_txt"},
        si \in {<<FALSE, "">>, <<TRUE, "">>, <<TRUE, "piped">>},
        po \in {NoList, ListOf(<<"a">>), ListOf(<<"a", ",", " ", "b">>),
                ListOf(<<"a", ",", "b", ",", "c", ",", "d", ",", "e">>)},
        pd \in {NoNumber, NotANumber, NumberFrom(4), NumberFrom(5),
                NumberFrom(10080), NumberFrom(10081)} :
        inv = [ BaseInvocation("text") EXCEPT
              !.body = b, !.textFile = tf, !.stdin = si[1], !.stdinText = si[2],
              !.xPollOptions = po, !.xPollDuration = pd ]

PhotoInvocations ==
    \E fs \in {NoList} \cup
               { ListOf(str) : str \in
                   { r \in SeqsUpTo({",", "a_jpg", "b_PNG", "big_gif", "gone_jpg", "a_bmp"},
                                    MaxRawLen) : WellFormedRaw(r) } },
        us \in {NoList, ListOf(<<>>), ListOf(<<"u1">>), ListOf(<<"u1", ",", "u2">>)},
        t \in {Undef, "", "T"}, a \in AsyncValues \ {Undef} :
        inv = [ BaseInvocation("photo") EXCEPT
              !.files = fs, !.urls = us, !.title = t, !.async = a ]

MediaInvocations ==
    \E c \in {"video", "document"},
        f \in {Undef, "", "under_mov", "at_mp4", "over_webm", "gone_mp4", "clip_mkv",
               "deck_pdf", "huge_pptx", "gone_pdf", "notes"},
        u \in {Undef, "", "u1"}, t \in {Undef, "T"}, a \in AsyncValues,
        r \in {NoList, ListOf(<<"linkedin">>), ListOf(<<"youtube">>)},
        lp \in {Undef, "lp"} \X {Undef, "clp"}, dry \in BOOLEAN :
        inv = [ BaseInvocation(c) EXCEPT
              !.file = f, !.url = u, !.title = t, !.async = a, !.platforms = r,
              !.linkedinPage = lp[1], !.cfgLinkedinPage = lp[2], !.dryRun = dry ]

ProfileInvocations ==
    \E c \in Commands, pr \in {Undef, "", "p"}, gp \in {Undef, "g"},
        ep \in {Undef, "", "e"}, cp \in {Undef, "c"},
        k \in {Undef, "fk"} \X {Undef, "", "ek"} \X {Undef, "ck"} :
        inv = [ BaseInvocation(c) EXCEPT
              !.profile = pr, !.globalProfile = gp, !.envProfile = ep, !.cfgProfile = cp,
              !.apiKey = k[1], !.envApiKey = k[2], !.cfgApiKey = k[3] ]

\* The per-platform results an upstream body may carry: none, or an entry for
\* each of the first platforms targeted, which succeeded or failed, with or
\* without its url or error string
ResultKinds == {"url", "bare", "error", "silent"}

ResultOf(p, k) ==
    CASE k = "url"    -> PlatformResult(p, TRUE, "url", Undef)
      [] k = "bare"   -> PlatformResult(p, TRUE, Undef, Undef)
      [] k = "error"  -> PlatformResult(p, FALSE, Undef, "err")
      [] k = "silent" -> PlatformResult(p, FALSE, Undef, Undef)

ResultMaps ==
    {NoList} \cup
    { ListOf([k \in 1..Len(ks) |-> ResultOf(<<"linkedin", "x">>[k], ks[k])]) :
        ks \in SeqsUpTo(ResultKinds, MaxListLen) }

UpstreamBodies ==
    { [ scheduled |-> sc, results |-> rs,
        job_id |-> IF sc = "true" THEN "job" ELSE Undef,
        scheduled_date |-> IF sc = "true" THEN "date" ELSE Undef,
        request_id |-> rq ] :
        sc \in {Undef, "true", "false"}, rs \in ResultMaps, rq \in {Undef, "req"} }

Upstreams ==
    { Upstream("ok", b) : b \in UpstreamBodies }
    \cup { Upstream(k, NoBody) : k \in UpstreamKinds \ {"ok"} }

ResponseInvocations ==
    \E c \in Commands, u \in Upstreams,
        m \in {<<TRUE, FALSE, TRUE>>, <<FALSE, TRUE, FALSE>>,
                <<FALSE, FALSE, TRUE>>, <<FALSE, FALSE, FALSE>>} :
        inv = [ BaseInvocation(c) EXCEPT
              !.platforms = IF c = "document" THEN ListOf(<<"linkedin">>)
                            ELSE ListOf(<<"linkedin", ",", "x">>),
              !.upstream = u, !.json = m[1], !.pretty = m[2], !.isTTY = m[3] ]

\* Invocations in which several of the validation steps of post text, photo
\* and video fail at once
GateInvocations ==
    \E c \in {"text", "photo", "video"},
        r \in { ListOf(<<"instagram", ",", "facebook">>), ListOf(<<"bogus", ",", "facebook">>),
                ListOf(<<"facebook", ",", "reddit">>), ListOf(<<"reddit", ",", "facebook">>),
                ListOf(<<"linkedin">>) },
        f \in {Undef, "pg"},
        sch \in {Unscheduled, ScheduleOf(NotADate), ScheduleOf(DateAt(DaySeconds))},
        q \in BOOLEAN, tz \in {Undef, "UTC", "Mars/Olympus"} :
        inv = [ BaseInvocation(c) EXCEPT
              !.platforms = r, !.facebookPage = f,
              !.schedule = sch, !.queue = q, !.timezone = tz ]

Invocations ==
    \/ ResponseInvocations
    \/ GateInvocations
    \/ PlatformInvocations
    \/ RequirementInvocations
    \/ ScheduleInvocations
    \/ TextInvocations
    \/ PhotoInvocations
    \/ MediaInvocations
    \/ ProfileInvocations

Init ==
    /\ Invocations
    /\ pc = "ready"
    /\ out = Failed(Ok, 0)

PostText ==
    /\ pc = "ready"
    /\ inv.op = "post"
    /\ inv.cmd = "text"
    /\ out' = postText(inv)
    /\ pc' = "done"
    /\ UNCHANGED inv

PostPhoto ==
    /\ pc = "ready"
    /\ inv.op = "post"
    /\ inv.cmd = "photo"
    /\ out' = postPhoto(inv)
    /\ pc' = "done"
    /\ UNCHANGED inv

PostVideo ==
    /\ pc = "ready"
    /\ inv.op = "post"
    /\ inv.cmd = "video"
    /\ out' = postVideo(inv)
    /\ pc' = "done"
    /\ UNCHANGED inv

PostDocument ==
    /\ pc = "ready"
    /\ inv.op = "post"
    /\ inv.cmd = "document"
    /\ out' = postDocument(inv)
    /\ pc' = "done"
    /\ UNCHANGED inv

Next == PostText \/ PostPhoto \/ PostVideo \/ PostDocument

Spec == Init /\ [][Next]_vars

(***************************************************************************)
(* Claims on the post commands                                             *)
(***************************************************************************)
Done == pc = "done" /\ inv.op = "post"

Built == out.request.type /= "none"

\* The invocation ended in a UserError, with nothing built and nothing sent
FailedAsUserError ==
    out.res.kind = "UserError" /\ ~Built /\ out.httpCalls = 0

\* Config.default_platforms is declared Platform[]
TypedConfig == \A k \in 1..Len(inv.cfgPlatforms.v) : IsPlatform(inv.cfgPlatforms.v[k])

\* The platform list the command targets: the parsed --platforms, else the
\* config default
Targeted ==
    IF RawTruthy(inv.platforms) THEN Range(parseList(inv.platforms.v))
    ELSE Range(inv.cfgPlatforms.v)

SuppliedByFlag(p) ==
    CASE p = "facebook"  -> Truthy(inv.facebookPage)
      [] p = "pinterest" -> Truthy(inv.pinterestBoard)
      [] p = "reddit"    -> Truthy(inv.redditSubreddit)

SuppliedByConfig(p) ==
    CASE p = "facebook"  -> Truthy(inv.cfgFacebookPage)
      [] p = "pinterest" -> Truthy(inv.cfgPinterestBoard)
      [] p = "reddit"    -> Truthy(inv.cfgRedditSubreddit)

RequirementMessage(p) ==
    CASE p = "facebook"  -> "Facebook requires --facebook-page flag"
      [] p = "pinterest" -> "Pinterest requires --pinterest-board flag"
      [] p = "reddit"    -> "Reddit requires --reddit-subreddit flag"

\* The same invocation with every required field moved from its flag to the
\* config platform_defaults
ViaConfig(i) ==
    [i EXCEPT !.facebookPage = Undef,
              !.cfgFacebookPage = OrElse(i.facebookPage, i.cfgFacebookPage),
              !.pinterestBoard = Undef,
              !.cfgPinterestBoard = OrElse(i.pinterestBoard, i.cfgPinterestBoard),
              !.redditSubreddit = Undef,
              !.cfgRedditSubreddit = OrElse(i.redditSubreddit, i.cfgRedditSubreddit)]

\* How the command ends for invocation i: its result, the files it looked at
\* and the API calls it made
EndOf(i) ==
    LET o == CASE i.cmd = "text"  -> postText(i)
               [] i.cmd = "photo" -> postPhoto(i)
               [] i.cmd = "video" -> postVideo(i)
    IN  <<o.res, o.filesChecked, o.httpCalls>>

C4_EnvPlatformsUsed ==
    (Done /\ inv.cmd \in {"text", "photo", "video"}
          /\ ~RawTruthy(inv.platforms) /\ RawTruthy(inv.envPlatforms)) =>
        /\ out.res /= PlatformsRequired
        /\ Built => out.request.platforms = ListOf(parseList(inv.envPlatforms.v))

BeforeDocumentPlatforms ==
    { "Must provide either --file or --url (not both)",
      "--title is required for document posts",
      "File not found", "File exceeds 100MB limit", "Unsupported format",
      "Profile required" }

NonLinkedinAt(list) == {k \in 1..Len(list) : list[k] /= "linkedin"}

\* C7: post document fails with a UserError, with no request built or sent,
\* whenever the given --platforms list has an entry other than linkedin; the
\* LinkedIn-only error, which only an earlier gate's error precedes, lists
\* every such entry.
C7_DocumentLinkedinOnly ==
    (Done /\ inv.cmd = "document" /\ RawTruthy(inv.platforms)
          /\ NonLinkedinAt(parseList(inv.platforms.v)) /= {}) =>
        /\ FailedAsUserError
        /\ \/ out.res.msg \in BeforeDocumentPlatforms
           \/ /\ out.res.msg = "Document posts are only supported on LinkedIn"
              /\ IsSelection(out.res.items, parseList(inv.platforms.v),
                             NonLinkedinAt(parseList(inv.platforms.v)))

C7_Witness ==
    /\ Done /\ inv.cmd = "document"
    /\ parseList(inv.platforms.v) = <<"linkedin", "facebook">>
    /\ out.res.items = <<"facebook">>

\* C8: a video request built from a local file of size s carries the async
\* flag unchanged when it was given (an explicit false included), async true
\* when it was not given and s is over 50 MB, and no async otherwise.
C8_VideoAutoAsync ==
    (Done /\ inv.cmd = "video" /\ Built /\ Truthy(inv.file)) =>
        LET s == FileSystem[inv.file].size
        IN  /\ inv.async /= Undef => out.request.async = inv.async
            /\ (inv.async = Undef /\ s > 50 * 1024 * 1024) => out.request.async = "true"
            /\ (inv.async = Undef /\ s <= 50 * 1024 * 1024) => out.request.async = Undef

C8_Witness ==
    /\ Done /\ inv.cmd = "video" /\ Built
    /\ inv.file = "over_webm" /\ inv.async = "false"
    /\ out.request.async = "false"

\* C10: post photo given both --files and --urls, or neither, fails with a
\* UserError before any file is looked at.
C10_PhotoSourceBeforeFiles ==
    (Done /\ inv.cmd = "photo" /\ (RawTruthy(inv.files) <=> RawTruthy(inv.urls))) =>
        /\ FailedAsUserError
        /\ out.res.msg = "Must provide either --files or --urls (not both)"
        /\ out.filesChecked = 0

C10_Witness ==
    /\ Done /\ inv.cmd = "photo"
    /\ RawTruthy(inv.files) /\ RawTruthy(inv.urls)
    /\ "gone_jpg" \in Range(parseList(inv.files.v))
    /\ out.filesChecked = 0

\* C12: the platform list of every text, photo or video request built is
\* non-empty, holds only names of the ten-platform enumeration, and holds no
\* name twice.
C12_RequestPlatformsDistinct ==
    (Done /\ inv.cmd \in {"text", "photo", "video"} /\ Built) =>
        LET l == out.request.platforms.v
        IN  /\ Len(l) > 0
            /\ \A k \in 1..Len(l) : IsPlatform(l[k])
            /\ \A j, k \in 1..Len(l) : l[j] = l[k] => j = k

\* What a request carries for a field given by flag or by config default
FlagOrDefault(flagValue, configValue) == IfGiven(OrElse(flagValue, configValue))

\* C13: a request built carries each platform-specific field that has a
\* config default whenever its flag or its config default is given, the flag
\* winning, and omits it only when neither is.
C13_ConfigDefaultsCarried ==
    (Done /\ Built) =>
        /\ out.request.linkedin_page = FlagOrDefault(inv.linkedinPage, inv.cfgLinkedinPage)
        /\ out.request.linkedin_visibility =
              FlagOrDefault(inv.linkedinVisibility, inv.cfgLinkedinVisibility)
        /\ inv.cmd \in {"text", "photo", "video"} =>
              /\ out.request.facebook_page =
                    FlagOrDefault(inv.facebookPage, inv.cfgFacebookPage)
              /\ out.request.reddit_subreddit =
                    FlagOrDefault(inv.redditSubreddit, inv.cfgRedditSubreddit)
        /\ inv.cmd \in {"photo", "video"} =>
              /\ out.request.pinterest_board =
                    FlagOrDefault(inv.pinterestBoard, inv.cfgPinterestBoard)
              /\ out.request.tiktok_privacy =
                    FlagOrDefault(inv.tiktokPrivacy, inv.cfgTiktokPrivacy)
        /\ inv.cmd = "video" =>
              /\ out.request.youtube_privacy =
                    FlagOrDefault(inv.youtubePrivacy, inv.cfgYoutubePrivacy)
              /\ out.request.youtube_category =
                    FlagOrDefault(inv.youtubeCategory, inv.cfgYoutubeCategory)

\* The words of a raw --platforms value, in order: what is left of it once
\* the commas and the blanks around the tokens are taken away
Words(str) == SelectSeq(str, LAMBDA x : x \notin {",", " "})

InvalidAt(list) == {k \in 1..Len(list) : ~IsPlatform(list[k])}

\* The errors post text, photo and video raise before they look at --platforms
BeforePlatforms ==
    { "Text content required", "Only one text input method allowed",
      "Failed to read file", "Text content cannot be empty",
      "Must provide either --files or --urls (not both)",
      "--title is required for photo posts",
      "File not found", "File exceeds 8MB limit", "Unsupported format",
      "Video source required. Provide exactly one of", "Title required",
      "Profile required" }

\* C14: post text, photo and video read --platforms as its comma-separated
\* tokens, trimmed, without the empty ones; a token that is not a platform
\* name makes the command fail with a UserError listing every invalid token,
\* a value with no token left makes it fail too, and only an earlier gate's
\* error, never a content-type or requirement error, is raised instead.
C14_PlatformListParsing ==
    (Done /\ inv.cmd \in {"text", "photo", "video"} /\ RawTruthy(inv.platforms)) =>
        LET list == Words(inv.platforms.v)
        IN  /\ Built => out.request.platforms = ListOf(list)
            /\ InvalidAt(list) /= {} =>
                 /\ FailedAsUserError
                 /\ \/ out.res.msg \in BeforePlatforms
                    \/ /\ out.res.msg = "Invalid platform names"
                       /\ IsSelection(out.res.items, list, InvalidAt(list))
            /\ list = <<>> =>
                 /\ FailedAsUserError
                 /\ out.res.msg \in BeforePlatforms \cup {"At least one platform is required"}

C14_Witness ==
    /\ Done /\ inv.cmd = "text"
    /\ inv.platforms.v = <<"pinterest", ",", "bogus">>
    /\ out.res.msg = "Invalid platform names"
    /\ out.res.items = <<"bogus">>

\* The command made its API call and the upstream answered with a JSON body
Answered == Done /\ out.httpCalls = 1 /\ inv.upstream.kind = "ok"

PrettyMode == formatterMode(inv.json, inv.pretty, inv.isTTY) = "pretty"

ImmediateBody(body) == body.scheduled /= "true" /\ body.results.set

\* A per-platform result of the documented shape: a url on success, an error
\* string on failure
Documented(r) == IF r.success THEN Truthy(r.url) ELSE Truthy(r.error)

FailedValidation == out.res.kind \in {"UserError", "TypeError"}

\* C19: a post command makes at most one HTTP request: none when a validation
\* step fails or --dry-run is set (the payload is only printed), exactly one
\* otherwise, and that one only after the request has been built completely.
C19_AtMostOneCall ==
    Done =>
        /\ out.httpCalls \in {0, 1}
        /\ FailedValidation => out.httpCalls = 0
        /\ inv.dryRun => out.httpCalls = 0
        /\ (inv.dryRun /\ ~FailedValidation) =>
              out.res = DryRun /\ Built /\ out.shown.outcome = "payload"
        /\ (~FailedValidation /\ ~inv.dryRun) => out.httpCalls = 1
        /\ out.httpCalls = 1 => Built
        /\ ~Built => FailedValidation

C19_Witness ==
    /\ Done /\ inv.cmd = "document"
    /\ inv.dryRun /\ Built
    /\ out.httpCalls = 0
    /\ out.shown.outcome = "payload"

(***************************************************************************)
(* The status command (specification SpecStatus).  An invocation holds the *)
(* positional id, the parsed flags and the API key sources; out holds the  *)
(* loop's variables and counts the status requests issued and the time     *)
(* slept between them.                                                     *)
(***************************************************************************)
maxAttempts == 120

DefaultPollMs == 5000

MinPollMs == 1000

\* values.interval ? parseInt(values.interval, 10) * 1000 : 5000
pollIntervalOf(interval) ==
    IF ~interval.set THEN NumberFrom(DefaultPollMs)
    ELSE IF interval.nan THEN NotANumber
    ELSE NumberFrom(interval.n * 1000)

\* String.prototype.startsWith
startsWith(str, prefix) ==
    Len(str) >= Len(prefix) /\ SubSeq(str, 1, Len(prefix)) = prefix

\* The id statusCheck looks up: --request-id, else --job-id, else the first
\* positional
statusId(i) ==
    IF Truthy(i.requestId) THEN i.requestId
    ELSE IF Truthy(i.jobId) THEN i.jobId
    ELSE IF i.positional /= Undef THEN i.positional
    ELSE Undef

\* A lookup type that follows the flag only and takes every positional for a
\* job id
statusIdTypeFlagOnly(i) ==
    IF Truthy(i.requestId) THEN "request_id" ELSE "job_id"

\* The lookup type: job_id unless --request-id is given or the positional
\* starts with req_
statusIdType(i) ==
    IF Truthy(i.requestId) THEN "request_id"
    ELSE IF Truthy(i.jobId) THEN "job_id"
    ELSE IF i.positional /= Undef /\ startsWith(i.positional, "req_") THEN "request_id"
    ELSE "job_id"

\* The query of ApiClient.getStatus
getStatusQuery(id, type) ==
    IF type = "job_id" THEN [param |-> "job_id", id |-> id]
    ELSE [param |-> "request_id", id |-> id]

NoQuery == [param |-> "none", id |-> Undef]

\* The checks statusCheck makes before it creates the client
statusGates(i) ==
    LET hasPositional == i.positional /= Undef
        hasRequestId  == Truthy(i.requestId)
        hasJobId      == Truthy(i.jobId)
        idSourceCount == Cardinality({k \in {"positional", "request", "job"} :
                             \/ k = "positional" /\ hasPositional
                             \/ k = "request" /\ hasRequestId
                             \/ k = "job" /\ hasJobId})
        id            == IF hasRequestId THEN i.requestId
                         ELSE IF hasJobId THEN i.jobId
                         ELSE IF hasPositional THEN i.positional
                         ELSE Undef
        pollInterval  == pollIntervalOf(i.interval)
    IN  IF idSourceCount > 1 THEN UserError("Only one ID source allowed", <<>>, <<>>)
        ELSE IF ~Truthy(id) THEN UserError("ID required", <<>>, <<>>)
        ELSE IF pollInterval.nan \/ pollInterval.n < MinPollMs
        THEN UserError("Poll interval must be at least 1 second", <<>>, <<>>)
        ELSE getApiKey(i.apiKey, i.envApiKey, i.cfgApiKey)

pollAgainInclusive(attempts) == attempts <= maxAttempts

\* while (attempts < maxAttempts && !interrupted): the SIGINT handler exits
\* the process, so the loop never sees interrupted set
pollAgain(attempts) == attempts < maxAttempts

\* result.status === "completed" || result.status === "failed"
isComplete(status) == status \in {"completed", "failed"}

StatusResult(status) == [status |-> status]

NoStatus == StatusResult(Undef)

PollingTimeout == UserError("Polling timeout reached", <<>>, <<>>)

Interrupted == [kind |-> "ok", msg |-> "interrupted", items |-> <<>>, hint |-> <<>>]

\* The state of one statusCheck invocation: the result so far, the loop
\* counter, the status requests issued, the last status received, what was
\* displayed, the time slept in all and since the last request
Polling(res, attempts, requests, last, shown, slept, gap) ==
    [ res |-> res, attempts |-> attempts, requests |-> requests, last |-> last,
      shown |-> shown, slept |-> slept, gap |-> gap, query |-> NoQuery ]

StatusValues == {"pending", "in_progress", "completed", "failed", "cancelled"}

StatusUpstreams ==
    { Upstream("ok", StatusResult(s)) : s \in StatusValues }
    \cup { Upstream(k, NoStatus) : k \in UpstreamKinds \ {"ok"} }

StatusInvocations ==
    [ op : {"status"}, poll : BOOLEAN,
      positional : {Undef, "", "req_1", "req", "job1"}, requestId : {Undef, "r"}, jobId : {Undef, "j"},
      interval : {NoNumber, NotANumber, NumberFrom(0 - 1), NumberFrom(0),
                  NumberFrom(1), NumberFrom(2)},
      apiKey : {Undef}, envApiKey : {Undef}, cfgApiKey : {Undef, "key"} ]

InitStatus ==
    /\ inv \in StatusInvocations
    /\ pc = "ready"
    /\ out = Polling(Ok, 0, 0, Undef, Undef, 0, 0)

\* statusCheck up to the first status request
StatusStart ==
    /\ pc = "ready"
    /\ inv.op = "status"
    /\ IF statusGates(inv) /= Ok
       THEN pc' = "done" /\ out' = [out EXCEPT !.res = statusGates(inv)]
       ELSE pc' = "request" /\ out' = out
    /\ UNCHANGED inv

\* await client.getStatus(id, idType), and what follows it up to the wait
StatusRequest ==
    /\ pc = "request"
    /\ \E u \in StatusUpstreams :
          LET call == request(u, NoStatus)
              sent == [out EXCEPT !.requests = @ + call.fetches,
                                  !.gap = 0, !.last = call.body.status,
                                  !.query = getStatusQuery(statusId(inv), statusIdType(inv))]
          IN  IF call.res /= Ok
              THEN pc' = "done" /\ out' = [sent EXCEPT !.res = call.res]
              ELSE IF ~inv.poll \/ isComplete(call.body.status)
              THEN pc' = "done" /\ out' = [sent EXCEPT !.shown = call.body.status]
              ELSE pc' = "sleep" /\ out' = sent
    /\ UNCHANGED inv

\* The wait for the interval, attempts++, and the loop test
StatusSleep ==
    /\ pc = "sleep"
    /\ LET waited == [out EXCEPT !.attempts = @ + 1,
                                 !.slept = @ + pollIntervalOf(inv.interval).n,
                                 !.gap = @ + pollIntervalOf(inv.interval).n]
       IN  IF pollAgain(waited.attempts)
           THEN pc' = "request" /\ out' = waited
           ELSE pc' = "done" /\ out' = [waited EXCEPT !.res = PollingTimeout]
    /\ UNCHANGED inv

\* SIGINT during polling: the handler calls process.exit(0)
StatusInterrupt ==
    /\ pc \in {"request", "sleep"}
    /\ inv.poll
    /\ pc' = "done"
    /\ out' = [out EXCEPT !.res = Interrupted]
    /\ UNCHANGED inv

NextStatus == StatusStart \/ StatusRequest \/ StatusSleep \/ StatusInterrupt

\* The command runs until it returns: every await in it is bounded (the
\* fetch by its 30 s timeout, the wait by the interval)
SpecStatus == InitStatus /\ [][NextStatus]_vars /\ WF_vars(NextStatus)

(***************************************************************************)
(* Claims on the status command                                            *)
(***************************************************************************)
PollingLoop == inv.op = "status" /\ inv.poll

\* What holds of the polling loop at every moment
PollingBounded ==
    inv.op = "status" =>
        /\ out.requests <= 120
        /\ ~inv.poll => out.requests <= 1
        /\ (inv.poll /\ pc = "request") =>
              /\ out.requests = out.attempts
              /\ out.requests >= 1 =>
                    /\ out.gap = pollIntervalOf(inv.interval).n
                    /\ out.gap >= 1000
        /\ (inv.poll /\ pc = "sleep") =>
              /\ out.requests = out.attempts + 1
              /\ ~isComplete(out.last)
        /\ (inv.poll /\ pc = "done" /\ out.shown /= Undef) =>
              /\ isComplete(out.last) /\ out.shown = out.last
              /\ out.requests = out.attempts + 1
        /\ out.res = PollingTimeout =>
              /\ pc = "done" /\ inv.poll
              /\ out.requests = 120 /\ out.attempts = 120
              /\ out.slept = 120 * pollIntervalOf(inv.interval).n

TerminalStates == {"completed", "failed", "cancelled"}

\* C18: once a status response reports a terminal state (completed, failed,
\* cancelled), polling stops: no further status request is issued.
C18_StopsOnTerminal ==
    [][(PollingLoop /\ out.last \in TerminalStates) => out'.requests = out.requests]_vars

(***************************************************************************)
(* Claims about the failures of the HTTP transport                         *)
(***************************************************************************)
\* What the upstream did, as a failure category
categoryOfUpstream(u) ==
    CASE u.kind \in TransportFailures -> "transport"
      [] u.kind \in Rejections        -> "rejected"
      [] u.kind = "badjson"           -> "malformed"
      [] OTHER                        -> "none"

\* What a caller reads off the error alone: its class and its statusCode
categoryOfError(res) ==
    CASE res.kind = "NetworkError"                          -> "transport"
      [] res.kind = "ApiError" /\ ~responseOk(res.statusCode) -> "rejected"
      [] res.kind = "ApiError" /\ responseOk(res.statusCode)  -> "malformed"
      [] OTHER                                              -> "none"

C22_RateLimitCarriesUsage ==
    ((Returned("request") \/ Returned("uploadRequest"))
        /\ inv.upstream.kind = "rateLimited") =>
        /\ out.res.statusCode = 429
        /\ out.res.msg = errorBodyOf(inv.upstream).message
        /\ out.res.usage.set
        /\ out.res.usage = errorBodyOf(inv.upstream).usage

(***************************************************************************)
(* Claims about the exit code                                              *)
(***************************************************************************)
\* C23: the top-level handler maps the error class to the exit code: a
\* UserError exits 1, an ApiError 2, a NetworkError 3, and the exit code is 0
\* only when the command returned with no error.
C23_ExitCodeByErrorClass ==
    Done =>
        /\ out.res.kind = "UserError" => exitCode(out.res) = 1
        /\ out.res.kind = "ApiError" => exitCode(out.res) = 2
        /\ out.res.kind = "NetworkError" => exitCode(out.res) = 3
        /\ exitCode(out.res) = 0 => out.res \in {Posted, DryRun}
        /\ exitCode(out.res) \in 0..3

C23_Witness ==
    /\ Done
    /\ inv.cmd = "video"
    /\ inv.upstream.kind = "timeout"
    /\ out.res.kind = "NetworkError"
    /\ out.httpCalls = 1
    /\ exitCode(out.res) = 3

(***************************************************************************)
(* Claims on the id sources of the status command                          *)
(***************************************************************************)
\* The id sources the invocation supplies
IdSources ==
    {k \in {"positional", "request", "job"} :
        \/ k = "positional" /\ inv.positional /= Undef
        \/ k = "request" /\ Truthy(inv.requestId)
        \/ k = "job" /\ Truthy(inv.jobId)}

Answers == {"y", "yes", "Y", "YES", " y", "yes ", "n", "no", "N", ""}

\* String.prototype.toLowerCase on the answers
toLowerCase(a) ==
    CASE a = "Y"   -> "y"
      [] a = "YES" -> "yes"
      [] a = "N"   -> "n"
      [] OTHER     -> a

\* String.prototype.trim on the answers
trimAnswer(a) ==
    CASE a = " y"   -> "y"
      [] a = "yes " -> "yes"
      [] OTHER      -> a

\* scheduleCancel's test of the answer: lower-cased, not trimmed
cancelAccepts(answer) == toLowerCase(answer) \in {"y", "yes"}

\* promptForConfirmation: trimmed and lower-cased
promptForConfirmation(answer) == toLowerCase(trimAnswer(answer)) \in {"y", "yes"}

Declined == [kind |-> "ok", msg |-> "declined", items |-> <<>>, hint |-> <<>>]

Deleted == [kind |-> "ok", msg |-> "deleted", items |-> <<>>, hint |-> <<>>]

\* The state of one invocation: the result, the DELETE requests issued,
\* whether the prompt was shown and what was answered
Confirming(res, calls, asked, answer) ==
    [res |-> res, calls |-> calls, asked |-> asked, answer |-> answer]

DeleteResult(ok) == [success |-> ok]

DeleteUpstreams ==
    { Upstream("ok", DeleteResult(TRUE)) }
    \cup { Upstream(k, DeleteResult(FALSE)) : k \in UpstreamKinds \ {"ok"} }

\* A scheduleCancel that asks only when it can and goes on otherwise
scheduleCancelGatesNoRefusal(i) ==
    IF ~Truthy(i.id) THEN [next |-> "done", res |-> UserError("Job ID required", <<>>, <<>>)]
    ELSE IF ~i.confirm /\ i.stdoutTTY THEN [next |-> "prompt", res |-> Ok]
    ELSE [next |-> "call", res |-> Ok]

\* scheduleCancel up to the prompt or the API key
scheduleCancelGates(i) ==
    IF ~Truthy(i.id) THEN [next |-> "done", res |-> UserError("Job ID required", <<>>, <<>>)]
    ELSE IF ~i.confirm /\ i.stdoutTTY THEN [next |-> "prompt", res |-> Ok]
    ELSE IF ~i.confirm /\ ~i.stdoutTTY
    THEN [next |-> "done",
          res |-> UserError("Confirmation required for non-interactive mode", <<>>, <<>>)]
    ELSE [next |-> "call", res |-> Ok]

\* profilesDelete up to the prompt or the API call; the API key is read
\* before the confirmation is looked at
profilesDeleteGates(i) ==
    IF ~Truthy(i.id) THEN [next |-> "done", res |-> UserError("Username is required", <<>>, <<>>)]
    ELSE IF getApiKey(i.apiKey, i.envApiKey, i.cfgApiKey) /= Ok
    THEN [next |-> "done", res |-> getApiKey(i.apiKey, i.envApiKey, i.cfgApiKey)]
    ELSE IF i.confirm THEN [next |-> "call", res |-> Ok]
    ELSE IF i.json
    THEN [next |-> "done", res |-> UserError("Deletion requires confirmation", <<>>, <<>>)]
    ELSE IF i.stdinTTY THEN [next |-> "prompt", res |-> Ok]
    ELSE [next |-> "done", res |-> UserError("Deletion requires confirmation", <<>>, <<>>)]

ConfirmInvocations ==
    [ op : {"schedule cancel", "profiles delete"}, id : {Undef, "x"},
      confirm : BOOLEAN, json : BOOLEAN, stdoutTTY : BOOLEAN, stdinTTY : BOOLEAN,
      apiKey : {Undef}, envApiKey : {Undef}, cfgApiKey : {Undef, "key"} ]

InitConfirm ==
    /\ inv \in ConfirmInvocations
    /\ pc = "ready"
    /\ out = Confirming(Ok, 0, FALSE, Undef)

\* scheduleCancel from its start to the prompt, the error or the API key
ScheduleCancelStart ==
    /\ pc = "ready"
    /\ inv.op = "schedule cancel"
    /\ pc' = scheduleCancelGates(inv).next
    /\ out' = [out EXCEPT !.res = scheduleCancelGates(inv).res]
    /\ UNCHANGED inv

\* The answer to `Cancel scheduled post <id>? (y/n)`
ScheduleCancelAnswer ==
    /\ pc = "prompt"
    /\ inv.op = "schedule cancel"
    /\ \E answer \in Answers :
          /\ out' = [out EXCEPT !.asked = TRUE, !.answer = answer,
                                !.res = IF cancelAccepts(answer) THEN Ok ELSE Declined]
          /\ pc' = IF cancelAccepts(answer) THEN "call" ELSE "done"
    /\ UNCHANGED inv

\* getApiKey and client.cancelScheduledPost(jobId)
ScheduleCancelCall ==
    /\ pc = "call"
    /\ inv.op = "schedule cancel"
    /\ pc' = "done"
    /\ IF getApiKey(inv.apiKey, inv.envApiKey, inv.cfgApiKey) /= Ok
       THEN out' = [out EXCEPT !.res = getApiKey(inv.apiKey, inv.envApiKey, inv.cfgApiKey)]
       ELSE \E u \in DeleteUpstreams :
               LET call == request(u, DeleteResult(FALSE))
               IN  out' = [out EXCEPT !.calls = @ + call.fetches,
                                      !.res = IF call.res = Ok THEN Deleted ELSE call.res]
    /\ UNCHANGED inv

\* profilesDelete from its start to the prompt, the error or the API call
ProfilesDeleteStart ==
    /\ pc = "ready"
    /\ inv.op = "profiles delete"
    /\ pc' = profilesDeleteGates(inv).next
    /\ out' = [out EXCEPT !.res = profilesDeleteGates(inv).res]
    /\ UNCHANGED inv

\* The answer to `Delete profile '<name>'? [y/N]`; anything but y or yes
\* exits the process with 0
ProfilesDeleteAnswer ==
    /\ pc = "prompt"
    /\ inv.op = "profiles delete"
    /\ \E answer \in Answers :
          /\ out' = [out EXCEPT !.asked = TRUE, !.answer = answer,
                                !.res = IF promptForConfirmation(answer) THEN Ok ELSE Declined]
          /\ pc' = IF promptForConfirmation(answer) THEN "call" ELSE "done"
    /\ UNCHANGED inv

\* client.deleteUser(username)
ProfilesDeleteCall ==
    /\ pc = "call"
    /\ inv.op = "profiles delete"
    /\ pc' = "done"
    /\ \E u \in DeleteUpstreams :
          LET call == request(u, DeleteResult(FALSE))
          IN  out' = [out EXCEPT !.calls = @ + call.fetches,
                                 !.res = IF call.res = Ok THEN Deleted ELSE call.res]
    /\ UNCHANGED inv

NextConfirm ==
    \/ ScheduleCancelStart \/ ScheduleCancelAnswer \/ ScheduleCancelCall
    \/ ProfilesDeleteStart \/ ProfilesDeleteAnswer \/ ProfilesDeleteCall

SpecConfirm == InitConfirm /\ [][NextConfirm]_vars

(***************************************************************************)
(* Claims on the destructive commands                                      *)
(***************************************************************************)
Destructive == inv.op \in {"schedule cancel", "profiles delete"}

\* The invocation cannot ask: no terminal (stdout for schedule cancel, stdin
\* for profiles delete), or --json for profiles delete
NonInteractive ==
    \/ inv.op = "schedule cancel" /\ ~inv.stdoutTTY
    \/ inv.op = "profiles delete" /\ (inv.json \/ ~inv.stdinTTY)

\* The answer given at the prompt, without case and surrounding blanks
AnsweredYes == out.asked /\ toLowerCase(trimAnswer(out.answer)) \in {"y", "yes"}

\* C25: schedule cancel and profiles delete issue their DELETE call only
\* after confirmation, by --confirm or by answering y or yes at the prompt:
\* without --confirm where no prompt is possible (no terminal, or --json for
\* profiles delete) they end in a UserError with no API call, and an answer
\* at the prompt that is not y or yes ends the command with no API call.
C25_DeleteOnlyAfterConfirmation ==
    Destructive =>
        /\ out.calls <= 1
        /\ out.calls > 0 => (inv.confirm \/ AnsweredYes)
        /\ out.asked => ~inv.confirm /\ ~NonInteractive
        /\ (pc = "done" /\ ~inv.confirm /\ NonInteractive) =>
              out.res.kind = "UserError" /\ out.calls = 0 /\ ~out.asked
        /\ (out.asked /\ ~AnsweredYes) =>
              pc = "done" /\ out.res = Declined /\ out.calls = 0

C25_Witness ==
    /\ inv.op = "profiles delete"
    /\ pc = "done"
    /\ ~inv.confirm /\ inv.stdinTTY /\ ~inv.json
    /\ out.asked /\ out.answer = "n"
    /\ out.res = Declined
    /\ out.calls = 0

(***************************************************************************)
(* Claims on the order of the validation steps                             *)
(***************************************************************************)
\* The invocation reached the platform steps of post text, photo or video
AtPlatformGates ==
    /\ Done
    /\ inv.cmd \in {"text", "photo", "video"}
    /\ ~(out.res.kind = "UserError" /\ out.res.msg \in BeforePlatforms)

\* The platform list the command goes on with
GatePlatforms ==
    IF RawTruthy(inv.platforms) THEN parseList(inv.platforms.v) ELSE inv.cfgPlatforms.v

\* What each validation step answers for the invocation, taken on its own:
\* 1 platform names (or no platform at all), 2 content type, 3 required fields, 4 schedule/queue
\* exclusion, 5 schedule date, 6 timezone
GateAnswer(k) ==
    CASE k = 1 -> IF RawTruthy(inv.platforms)
                  THEN validatePlatforms(parseList(inv.platforms.v))
                  ELSE IF Len(GatePlatforms) = 0 THEN PlatformsRequired ELSE Ok
      [] k = 2 -> validateContentTypeForPlatforms(inv.cmd, GatePlatforms)
      [] k = 3 -> validatePlatformRequirements(GatePlatforms,
                      IF inv.cmd = "text" THEN textRequirementParams(inv)
                      ELSE mediaRequirementParams(inv))
      [] k = 4 -> IF ScheduleTruthy(inv.schedule) /\ inv.queue
                  THEN ScheduleQueueExclusive ELSE Ok
      [] k = 5 -> IF ScheduleTruthy(inv.schedule)
                  THEN validateISODate(inv.schedule.date, inv.now) ELSE Ok
      [] k = 6 -> IF Truthy(inv.timezone) THEN validateTimezone(inv.timezone) ELSE Ok

\* C26: post text, photo and video run their validation steps in a fixed
\* order: platform names, content type, required platform fields,
\* schedule/queue exclusion, schedule date, timezone.  The error reported is
\* that of the earliest step that fails: when the error is the one of a step,
\* every earlier step passes, and when a step fails nothing is built or sent.
C26_GatesInFixedOrder ==
    AtPlatformGates =>
        \A k \in 1..6 :
            /\ (GateAnswer(k) /= Ok /\ out.res = GateAnswer(k)) =>
                  \A j \in 1..(k - 1) : GateAnswer(j) = Ok
            /\ (GateAnswer(k) /= Ok /\ \A j \in 1..(k - 1) : GateAnswer(j) = Ok) =>
                  /\ out.res.kind \in {"UserError", "TypeError"}
                  /\ ~Built /\ out.httpCalls = 0
                  /\ (out.res = GateAnswer(k)
                        \/ (inv.cmd = "video" /\ k > 2 /\ out.res = validateVideoFile(inv.file)))

C26_Witness ==
    /\ Done
    /\ inv.cmd = "text"
    /\ inv.platforms = ListOf(<<"instagram", ",", "facebook">>)
    /\ inv.facebookPage = Undef
    /\ ScheduleTruthy(inv.schedule) /\ inv.queue
    /\ out.res = validateContentTypeForPlatforms("text", <<"instagram", "facebook">>)
    /\ out.res.items = <<"instagram">>

(***************************************************************************)
(* Claims on validatePlatformRequirements                                  *)
(***************************************************************************)
\* The positions of the platforms whose required field is missing from the
\* parameter set
MissingAt(platforms, params) ==
    {k \in 1..Len(platforms) :
        \/ platforms[k] = "facebook" /\ ~Truthy(params.facebook_page)
        \/ platforms[k] = "pinterest" /\ ~Truthy(params.pinterest_board)
        \/ platforms[k] = "reddit" /\ ~Truthy(params.reddit_subreddit)}

\* C27: validatePlatformRequirements stops at the first platform, in input
\* order, whose required field is missing: the UserError names that
\* platform's flag and config default key and no other platform's; a list in
\* which no platform misses its field (platforms with no requirement never
\* do) passes.
C27_FirstMissingRequirement ==
    Returned("validatePlatformRequirements") =>
        LET missing == MissingAt(inv.platforms, inv.params)
        IN  /\ missing = {} => out = Ok
            /\ missing /= {} =>
                 LET first == CHOOSE k \in missing : \A j \in missing : k <= j
                     p     == inv.platforms[first]
                 IN  /\ out.kind = "UserError"
                     /\ out.msg = RequirementMessage(p)
                     /\ out.items = <<p>>
                     /\ out.hint[1] = p
                     /\ out.hint[2] = CASE p = "facebook"  -> "page_id"
                                        [] p = "pinterest" -> "board_id"
                                        [] p = "reddit"    -> "subreddit"

C27_Witness ==
    /\ Returned("validatePlatformRequirements")
    /\ inv.platforms = <<"reddit", "facebook">>
    /\ inv.params.reddit_subreddit = ""
    /\ inv.params.facebook_page = Undef
    /\ out.msg = "Reddit requires --reddit-subreddit flag"
    /\ out.items = <<"reddit">>

(***************************************************************************)
(* Claims on the platforms of the requests built                           *)
(***************************************************************************)
\* C28: every request post text, photo or video builds, whether it is sent
\* or printed by --dry-run, lists exactly the platforms targeted (from
\* --platforms, else from config default_platforms) and each of them supports
\* the content type; a targeted list with an unknown platform or one that
\* does not support the content type never yields a request.
C28_RequestPlatformsSupported ==
    (Done /\ inv.cmd \in {"text", "photo", "video"}) =>
        /\ Built =>
              /\ out.request.platforms.set
              /\ out.request.platforms.v = GatePlatforms
              /\ Len(out.request.platforms.v) > 0
              /\ \A k \in 1..Len(out.request.platforms.v) :
                    /\ IsPlatform(out.request.platforms.v[k])
                    /\ Capable(out.request.platforms.v[k], inv.cmd)
        /\ (\E k \in 1..Len(GatePlatforms) :
               ~IsPlatform(GatePlatforms[k]) \/ ~Capable(GatePlatforms[k], inv.cmd)) =>
              /\ ~Built
              /\ out.httpCalls = 0
              /\ out.shown.outcome = "none"

C28_Witness ==
    /\ Done
    /\ inv.cmd = "photo"
    /\ ~RawTruthy(inv.platforms)
    /\ inv.cfgPlatforms = ListOf(<<"pinterest", "x">>)
    /\ Built
    /\ out.request.platforms.v = <<"pinterest", "x">>
    /\ out.httpCalls = 1

(***************************************************************************)
(* Claims on the multipart payload                                         *)
(***************************************************************************)
Sent == Done /\ out.httpCalls = 1

C30_DocumentHasNoPlatforms ==
    (Done /\ inv.cmd = "document") =>
        /\ \A l \in {NoList, ListOf(<<"facebook">>), ListOf(<<"bogus">>)} :
              postDocument([inv EXCEPT !.cfgPlatforms = l]) = out
        /\ ~RawTruthy(inv.platforms) =>
              out.res.msg /= "Document posts are only supported on LinkedIn"
        /\ Built => ~out.request.platforms.set /\ out.request.platforms = NoList
        /\ Sent => ~out.wire.platform.set /\ out.wire.endpoint = "/upload_document"

C30_Witness ==
    /\ Done /\ inv.cmd = "document"
    /\ ~RawTruthy(inv.platforms)
    /\ inv.cfgPlatforms = ListOf(<<"facebook", "bogus">>)
    /\ Built /\ Sent
    /\ out.res = Posted
    /\ out.request.platforms = NoList
    /\ out.wire.platform = NoList

====
